---- MODULE Spec2Model ----
(***************************************************************************)
(* Model of the OrderFlow parser's deterministic core: the per-row         *)
(* grounding pass (enrichAndValidate), the document-level export builder   *)
(* (buildPOExportsV1 / reasonCodesFromRows), the per-file pipeline of      *)
(* processFiles, and the PDF packet segmentation (buildSegments).          *)
(*                                                                         *)
(* Confidence values and thresholds are kept in hundredths (0.8 is 80).    *)
(* The sums the code forms in IEEE doubles (0.4 + 0.2 + 0.2 + 0.2) round   *)
(* to 0.2, 0.4, 0.6000000000000001, 0.8 and 1.0; every comparison the code *)
(* makes on them (>= 0.8, < threshold) has the same outcome as on the      *)
(* exact hundredths.                                                       *)
(***************************************************************************)
EXTENDS Integers, Sequences, FiniteSets, TLC

VARIABLES rows, mapped, thresholds, exports, refPack, exclusions, pageTexts, triage, segs, step,
          upload, truthRows, nBins, calibrationData, autoMin, reviewMin, blockBelow, isCalibrating,
          coverage, maxError, gates,
          lineRow, fieldConf, itemClass, zeroDollar,
          docsFirst, docsSecond, baselineSig, currentSig, regressionDiff,
          runs, isProcessing, lastError, progress, processingStatus, setupOk

\* the setup wizard's validation state and policy gates (SetupWizard)
calibVars == <<upload, truthRows, nBins, calibrationData, autoMin, reviewMin, blockBelow,
               isCalibrating>>

\* argument and result of suggestGates
gateVars == <<coverage, maxError, gates>>

\* argument and results of computeFieldConfidence, deriveItemClass and
\* classifyZeroDollar
lineVars == <<lineRow, fieldConf, itemClass, zeroDollar>>

\* the regression harness: the parse output of the baseline run and of the
\* regression run, the stored baseline, the current signature and the diff
sigVars == <<docsFirst, docsSecond, baselineSig, currentSig, regressionDiff>>

\* processFiles: the runs started so far (each with its file list, loop
\* position and allNewRows) and the state they set
runVars == <<runs, isProcessing, lastError, progress, processingStatus, setupOk>>

vars == <<rows, mapped, thresholds, exports, refPack, exclusions, pageTexts, triage, segs, step,
          calibVars, gateVars, lineVars, sigVars, runVars>>

\* ------------------------------------------------------------------------
\* Bounds of the model
\* ------------------------------------------------------------------------
MaxRows == 2

MaxPages == 5

\* ------------------------------------------------------------------------
\* Types (types.ts, abhSchema.ts)
\* ------------------------------------------------------------------------
AutomationLane == {"AUTO", "REVIEW", "BLOCK", "ASSIST"}

RoutingDecision == {"AUTO_STAGE", "REVIEW", "HUMAN_REQUIRED"}

\* confidence_score is optional on a POLineRow: NoConf stands for undefined.
NoConf == -1

DocIds == {"D1", "D2"}

Min(a, b) == IF a <= b THEN a ELSE b

Max(a, b) == IF a >= b THEN a ELSE b

SeqsUpTo(S, n) == UNION {[1..k -> S] : k \in 0..n}

\* A POLineRow, reduced to the fields routing and export read or write.
\* text stands for `${customer_item_no} ${customer_item_desc_raw}`, reduced
\* to the reference vocabularies it contains.
MkRow(docId, docType, lineNo, text, conf, lane, flags, reason) ==
  [doc_id |-> docId, doc_type |-> docType, line_no |-> lineNo, text |-> text,
   confidence_score |-> conf, match_score |-> conf,
   automation_lane |-> lane, sage_import_ready |-> FALSE,
   edge_case_flags |-> flags, routing_reason |-> reason,
   fields_requiring_review |-> <<>>, policy_rule_ids_applied |-> {},
   qty |-> <<>>, unit_price |-> <<>>, extended_price |-> <<>>,
   raw_edge_case_notes |-> <<>>, abh_item_no_candidate |-> <<>>]

\* ------------------------------------------------------------------------
\* services/jsonExport.ts
\* ------------------------------------------------------------------------
\* (r.confidence_score ?? 1)
ConfOrOne(r) == IF r.confidence_score = NoConf THEN 100 ELSE r.confidence_score

\* every instead of some
anyBelowAuto_every(docRows, th) ==
  \A i \in 1..Len(docRows) : ConfOrOne(docRows[i]) < th.auto_stage_min

anyBelowAuto(docRows, th) ==
  \E i \in 1..Len(docRows) : ConfOrOne(docRows[i]) < th.auto_stage_min

anyBelowReview(docRows, th) ==
  \E i \in 1..Len(docRows) : ConfOrOne(docRows[i]) < th.review_min

laneToDecision(lane) ==
  IF lane = "AUTO" THEN "AUTO_STAGE"
  ELSE IF lane = "REVIEW" \/ lane = "ASSIST" THEN "REVIEW"
  ELSE "HUMAN_REQUIRED"

\* String(f).toUpperCase().includes(word), over the flag vocabulary of the model
FlagIncludes(f, word) ==
  CASE word = "CREDIT"  -> f \in {"CREDIT_MEMO"}
    [] word = "SPECIAL" -> f \in {"SPECIAL_LAYOUT"}
    [] word = "CUSTOM"  -> f \in {"CUSTOM_DIMENSION"}
    [] word = "CUT"     -> FALSE
    [] word = "ZERO"    -> f \in {"ZERO_DOLLAR"}
    [] word = "0.00"    -> FALSE
    [] word = "THIRD"   -> f \in {"THIRD_PARTY_SHIP"}
    [] word = "SHIP"    -> f \in {"THIRD_PARTY_SHIP"}
    [] word = "MARK"    -> FALSE
    [] OTHER            -> FALSE

AnyFlag(r, words) == \E f \in r.edge_case_flags : \E w \in words : FlagIncludes(f, w)

\* (r.routing_reason || '').toLowerCase().includes('policy')
MentionsPolicy(reason) == reason \in {"POLICY_BLOCK", "Blocked by policy"}

RowCodes(r) ==
  (IF r.doc_type = "CREDIT_MEMO" \/ AnyFlag(r, {"CREDIT"}) THEN {"CREDIT_MEMO_DETECTED"} ELSE {})
  \cup (IF AnyFlag(r, {"SPECIAL"}) THEN {"SPECIAL_LAYOUT_DETECTED"} ELSE {})
  \cup (IF AnyFlag(r, {"CUSTOM", "CUT"}) THEN {"CUSTOM_DIMENSION_DETECTED"} ELSE {})
  \cup (IF AnyFlag(r, {"ZERO", "0.00"}) THEN {"ZERO_DOLLAR_LINE_DETECTED"} ELSE {})
  \cup (IF AnyFlag(r, {"THIRD", "SHIP", "MARK"}) THEN {"THIRD_PARTY_SHIP_DETECTED"} ELSE {})
  \cup (IF r.automation_lane = "BLOCK" \/ MentionsPolicy(r.routing_reason)
        THEN {"POLICY_BLOCK"} ELSE {})

\* the codes derived before the PARSING_ERROR fallback
DerivedCodes(docRows, th) ==
  (IF ~anyBelowAuto(docRows, th) /\ ~anyBelowReview(docRows, th)
     THEN {"ALL_LINES_HIGH_CONFIDENCE"} ELSE {})
  \cup (IF anyBelowAuto(docRows, th) THEN {"LOW_CONFIDENCE_FIELDS_PRESENT"} ELSE {})
  \cup UNION {RowCodes(docRows[i]) : i \in 1..Len(docRows)}

\* ALL_LINES_HIGH_CONFIDENCE decided on review_min alone
reasonCodesFromRows_reviewOnly(docRows, th) ==
  LET codes == (IF ~anyBelowReview(docRows, th) THEN {"ALL_LINES_HIGH_CONFIDENCE"} ELSE {})
                 \cup (IF anyBelowAuto(docRows, th) THEN {"LOW_CONFIDENCE_FIELDS_PRESENT"} ELSE {})
                 \cup UNION {RowCodes(docRows[i]) : i \in 1..Len(docRows)}
  IN IF codes = {} THEN {"PARSING_ERROR"} ELSE codes

\* without the fallback of line 62
reasonCodesFromRows_noFallback(docRows, th) == DerivedCodes(docRows, th)

reasonCodesFromRows(docRows, th) ==
  IF DerivedCodes(docRows, th) = {} THEN {"PARSING_ERROR"} ELSE DerivedCodes(docRows, th)

safeMinConfidence(docRows, fallback) ==
  LET vals == {docRows[i].confidence_score : i \in {j \in 1..Len(docRows) : docRows[j].confidence_score # NoConf}}
      lo == CHOOSE v \in vals : \A w \in vals : v <= w
  IN IF vals = {} THEN fallback ELSE Max(0, Min(100, lo))

\* some row AUTO instead of every row AUTO, and anyReview not consulted
LaneDecision_someAuto(docRows) ==
  LET anyBlock == \E i \in 1..Len(docRows) : docRows[i].automation_lane = "BLOCK"
      someAuto == \E i \in 1..Len(docRows) : docRows[i].automation_lane = "AUTO"
  IN IF anyBlock THEN "HUMAN_REQUIRED"
     ELSE IF someAuto THEN "AUTO_STAGE" ELSE "REVIEW"

\* the decision of line 127, before the threshold checks
LaneDecision(docRows) ==
  LET anyBlock == \E i \in 1..Len(docRows) : docRows[i].automation_lane = "BLOCK"
      anyReview == \E i \in 1..Len(docRows) : docRows[i].automation_lane \in {"REVIEW", "ASSIST"}
      allAuto == \A i \in 1..Len(docRows) : docRows[i].automation_lane = "AUTO"
  IN IF anyBlock THEN "HUMAN_REQUIRED"
     ELSE IF allAuto /\ ~anyReview THEN "AUTO_STAGE" ELSE "REVIEW"

\* line 131 without its `decision === 'AUTO_STAGE'` guard
ThresholdDecision_unguarded(decision, docRows, th) ==
  LET d1 == IF anyBelowAuto(docRows, th) THEN "REVIEW" ELSE decision
  IN IF anyBelowReview(docRows, th) THEN "HUMAN_REQUIRED" ELSE d1

\* lines 129-132: the threshold checks applied to the lane-based decision
ThresholdDecision(decision, docRows, th) ==
  LET d1 == IF decision = "AUTO_STAGE" /\ anyBelowAuto(docRows, th) THEN "REVIEW" ELSE decision
  IN IF anyBelowReview(docRows, th) THEN "HUMAN_REQUIRED" ELSE d1

\* the rows of one document, in input order (the Map of lines 112-116)
RECURSIVE GroupRows(_, _, _)
GroupRows(rs, i, docId) ==
  IF i > Len(rs) THEN <<>>
  ELSE IF rs[i].doc_id = docId THEN <<rs[i]>> \o GroupRows(rs, i + 1, docId)
       ELSE GroupRows(rs, i + 1, docId)

\* the keys of the Map, in first-insertion order
RECURSIVE GroupKeys(_, _, _)
GroupKeys(rs, i, seen) ==
  IF i > Len(rs) THEN <<>>
  ELSE IF rs[i].doc_id \in seen THEN GroupKeys(rs, i + 1, seen)
       ELSE <<rs[i].doc_id>> \o GroupKeys(rs, i + 1, seen \cup {rs[i].doc_id})

\* auto_process_eligible decided on the decision alone
ExportOf_anyRunMode(docId, docRows, th, runMode) ==
  LET initial == LaneDecision(docRows)
      decision == ThresholdDecision(initial, docRows, th)
  IN [document_id |-> docId,
      document_type |-> docRows[1].doc_type,
      lane_decision |-> initial,
      decision |-> decision,
      reason_codes |-> reasonCodesFromRows(docRows, th),
      overall_confidence |-> safeMinConfidence(docRows, 0),
      run_mode |-> runMode,
      auto_process_eligible |-> (decision = "AUTO_STAGE"),
      thresholds |-> th,
      n_line_items |-> Len(docRows)]

\* One POExportV1 (lines 120-191), reduced to document, confidence and routing.
\* lane_decision records the local `decision` as line 127 sets it, before the
\* threshold checks; n_line_items is the length of line_items.
ExportOf(docId, docRows, th, runMode) ==
  LET initial == LaneDecision(docRows)
      decision == ThresholdDecision(initial, docRows, th)
  IN [document_id |-> docId,
      document_type |-> docRows[1].doc_type,
      lane_decision |-> initial,
      decision |-> decision,
      reason_codes |-> reasonCodesFromRows(docRows, th),
      overall_confidence |-> safeMinConfidence(docRows, 0),
      run_mode |-> runMode,
      auto_process_eligible |-> (decision = "AUTO_STAGE" /\ runMode = "PRODUCTION"),
      thresholds |-> th,
      n_line_items |-> Len(docRows)]

buildPOExportsV1(rs, th, runMode) ==
  LET keys == GroupKeys(rs, 1, {})
  IN [k \in 1..Len(keys) |-> ExportOf(keys[k], GroupRows(rs, 1, keys[k]), th, runMode)]

\* ------------------------------------------------------------------------
\* services/referenceService.ts (the reference-lookup collaborator): a lookup
\* finds an entry iff the row text contains a term of that vocabulary.
\* ------------------------------------------------------------------------
normalizeManufacturer(text) == "MFR" \in text

normalizeFinish(text) == "FINISH" \in text

detectCategory(text) == "CATEGORY" \in text

\* ------------------------------------------------------------------------
\* services/enrichAndValidate.ts
\* ------------------------------------------------------------------------
\* the violations list after the three grounding checks (lines 29-53)
Violations(row) ==
  (IF normalizeManufacturer(row.text) THEN <<>> ELSE <<"No Mfr Match">>)
  \o (IF normalizeFinish(row.text) THEN <<>> ELSE <<"No Finish Match">>)

\* the score after the three grounding checks (lines 30-53), in hundredths
GroundingScore(row) ==
  (IF normalizeManufacturer(row.text) THEN 40 ELSE 0)
  + (IF normalizeFinish(row.text) THEN 20 ELSE 0)
  + (IF detectCategory(row.text) THEN 20 ELSE 0)

\* The score as the IEEE double the code forms; a double is named by the way
\* JavaScript prints it.  The sums of lines 38, 46, 53 and 55 in binary64,
\* round to nearest: 0.4 + 0.2 is 0.6000000000000001, the others print as
\* the exact tenth.
DoublePlus(a, b) ==
  IF a = "0" THEN b
  ELSE IF a = "0.2" /\ b = "0.2" THEN "0.4"
  ELSE IF a = "0.4" /\ b = "0.2" THEN "0.6000000000000001"
  ELSE IF a = "0.6000000000000001" /\ b = "0.2" THEN "0.8"
  ELSE "1"

\* score after lines 30-53
GroundingScoreDouble(row) ==
  LET s1 == IF normalizeManufacturer(row.text) THEN DoublePlus("0", "0.4") ELSE "0"
      s2 == IF normalizeFinish(row.text) THEN DoublePlus(s1, "0.2") ELSE s1
  IN IF detectCategory(row.text) THEN DoublePlus(s2, "0.2") ELSE s2

\* Math.min(score + 0.2, 1): no sum exceeds 1
ConfidenceDouble(row) == DoublePlus(GroundingScoreDouble(row), "0.2")

\* the double in hundredths, rounded
Hundredths(d) ==
  IF d = "0" THEN 0
  ELSE IF d = "0.2" THEN 20
  ELSE IF d = "0.4" THEN 40
  ELSE IF d \in {"0.6", "0.6000000000000001"} THEN 60
  ELSE IF d = "0.8" THEN 80
  ELSE 100

\* `Issues: ${violations.join(", ")}${docHint}` and `Grounded Match${docHint}`
RoutingReasonText(isReady, violations, docType) ==
  IF docType = "PICKING_SHEET"
  THEN IF isReady THEN "Grounded Match (NO_PRICING_EXPECTED)"
       ELSE IF violations = <<>> THEN "Issues:  (NO_PRICING_EXPECTED)"
       ELSE IF violations = <<"No Mfr Match">> THEN "Issues: No Mfr Match (NO_PRICING_EXPECTED)"
       ELSE IF violations = <<"No Finish Match">> THEN "Issues: No Finish Match (NO_PRICING_EXPECTED)"
       ELSE "Issues: No Mfr Match, No Finish Match (NO_PRICING_EXPECTED)"
  ELSE IF isReady THEN "Grounded Match"
       ELSE IF violations = <<>> THEN "Issues: "
       ELSE IF violations = <<"No Mfr Match">> THEN "Issues: No Mfr Match"
       ELSE IF violations = <<"No Finish Match">> THEN "Issues: No Finish Match"
       ELSE "Issues: No Mfr Match, No Finish Match"

EmailCoverReason == "EMAIL_COVER should not generate exportable line items (quarantined)"

\* the EMAIL_COVER guard applied after the grounding pass, only to rows that
\* did not come out ready
enrichRow_lateGuard(row) ==
  LET violations == Violations(row)
      confidence == Min(GroundingScore(row) + 20, 100)
      isReady == Len(violations) = 0 /\ confidence >= 80
      lane == IF isReady THEN "AUTO"
              ELSE IF Len(violations) > 2 \/ row.doc_type = "EMAIL_COVER" THEN "BLOCK" ELSE "ASSIST"
  IN [row EXCEPT !.confidence_score = confidence,
                 !.match_score = confidence,
                 !.automation_lane = lane,
                 !.sage_import_ready = isReady,
                 !.routing_reason = RoutingReasonText(isReady, violations, row.doc_type),
                 !.abh_item_no_candidate =
                   IF normalizeManufacturer(row.text) THEN <<"abbr-customer_item_no">> ELSE @,
                 !.fields_requiring_review = IF isReady THEN <<>> ELSE violations,
                 !.raw_edge_case_notes = Append(@, "ref_pack_version"),
                 !.policy_rule_ids_applied = @ \cup {"REFPACK", "REF_GROUNDING_V4"}]

\* readiness decided on the grounding score, without the flat 0.2
enrichRow_noFloor(row) ==
  IF row.doc_type = "EMAIL_COVER"
  THEN [row EXCEPT !.automation_lane = "BLOCK",
                   !.sage_import_ready = FALSE,
                   !.routing_reason = EmailCoverReason,
                   !.fields_requiring_review = <<"doc_type">>,
                   !.raw_edge_case_notes = Append(@, "ref_pack_version"),
                   !.policy_rule_ids_applied = @ \cup {"REFPACK", "DOC_GUARD:EMAIL_COVER"}]
  ELSE LET violations == Violations(row)
           confidence == Min(GroundingScore(row) + 20, 100)
           isReady == Len(violations) = 0 /\ GroundingScore(row) >= 80
           lane == IF isReady THEN "AUTO"
                   ELSE IF Len(violations) > 2 THEN "BLOCK" ELSE "ASSIST"
       IN [row EXCEPT !.confidence_score = confidence,
                      !.match_score = confidence,
                      !.automation_lane = lane,
                      !.sage_import_ready = isReady,
                      !.routing_reason = RoutingReasonText(isReady, violations, row.doc_type),
                      !.abh_item_no_candidate =
                        IF normalizeManufacturer(row.text) THEN <<"abbr-customer_item_no">> ELSE @,
                      !.fields_requiring_review = IF isReady THEN <<>> ELSE violations,
                      !.raw_edge_case_notes = Append(@, "ref_pack_version"),
                      !.policy_rule_ids_applied = @ \cup {"REFPACK", "REF_GROUNDING_V4"}]

\* the callback of rows.map (lines 9-83)
enrichRow(row) ==
  IF row.doc_type = "EMAIL_COVER"
  THEN [row EXCEPT !.automation_lane = "BLOCK",
                   !.sage_import_ready = FALSE,
                   !.routing_reason = EmailCoverReason,
                   !.fields_requiring_review = <<"doc_type">>,
                   !.raw_edge_case_notes = Append(@, "ref_pack_version"),
                   !.policy_rule_ids_applied = @ \cup {"REFPACK", "DOC_GUARD:EMAIL_COVER"}]
  ELSE LET violations == Violations(row)
           confidence == Min(GroundingScore(row) + 20, 100)
           isReady == Len(violations) = 0 /\ confidence >= 80
           lane == IF isReady THEN "AUTO"
                   ELSE IF Len(violations) > 2 THEN "BLOCK" ELSE "ASSIST"
       IN [row EXCEPT !.confidence_score = confidence,
                      !.match_score = confidence,
                      !.automation_lane = lane,
                      !.sage_import_ready = isReady,
                      !.routing_reason = RoutingReasonText(isReady, violations, row.doc_type),
                      !.abh_item_no_candidate =
                        IF normalizeManufacturer(row.text) THEN <<"abbr-customer_item_no">> ELSE @,
                      !.fields_requiring_review = IF isReady THEN <<>> ELSE violations,
                      !.raw_edge_case_notes = Append(@, "ref_pack_version"),
                      !.policy_rule_ids_applied = @ \cup {"REFPACK", "REF_GROUNDING_V4"}]

\* quarantined e-mail cover rows left out of the result
enrichAndValidate_dropCovers(rs) ==
  LET kept(r) == r.automation_lane # "BLOCK"
  IN SelectSeq([i \in 1..Len(rs) |-> enrichRow(rs[i])], kept)

enrichAndValidate(rs) == [i \in 1..Len(rs) |-> enrichRow(rs[i])]

\* ------------------------------------------------------------------------
\* services/pdfPacketTriage.ts
\* ------------------------------------------------------------------------
\* A page text is reduced to its normalized length and to the header patterns
\* of scorePage that match it: [len |-> n, has |-> set of pattern names].
MinTextLen == 20

\* scorePage with the purchase-order rule tried before the credit-memo rule
scorePage_poFirst(text) ==
  LET has(re) == re \in text.has
      isPO == has("PURCHASE ORDER") \/ has("HUNTINGTON HARDWARE")
      isINVOICE == has("INVOICE") /\ ~has("INVOICE TO")
      isSO == has("SALES ORDER")
      isPICK == has("PICKING SHEET")
      isCM == has("CREDIT MEMO")
      isEMAIL == has("FROM:") /\ has("SUBJECT:")
      hasTotals == has("SUBTOTAL") \/ has("TOTAL") \/ has("AMOUNT")
      hasShipTo == has("SHIP TO")
      hasBillTo == has("BILL TO") \/ has("SOLD TO")
  IN IF text.len < MinTextLen
       THEN [label |-> "UNKNOWN", score |-> 10, reasons |-> <<"NO_TEXT_OR_TOO_SHORT">>]
     ELSE IF isEMAIL
       THEN [label |-> "EMAIL_COVER", score |-> 90, reasons |-> <<"EMAIL_HEADERS">>]
     ELSE IF isPO
       THEN [label |-> "PURCHASE_ORDER", score |-> 95, reasons |-> <<"PURCHASE_ORDER_HEADER">>]
     ELSE IF isCM
       THEN [label |-> "CREDIT_MEMO", score |-> 95, reasons |-> <<"CREDIT_MEMO_HEADER">>]
     ELSE IF isSO
       THEN [label |-> "SALES_ORDER", score |-> 90, reasons |-> <<"SALES_ORDER_HEADER">>]
     ELSE IF isINVOICE
       THEN [label |-> "INVOICE", score |-> 90, reasons |-> <<"INVOICE_HEADER">>]
     ELSE IF isPICK
       THEN [label |-> "PICKING_SHEET", score |-> 90, reasons |-> <<"PICKING_SHEET_HEADER">>]
     ELSE IF hasTotals /\ (hasShipTo \/ hasBillTo)
       THEN [label |-> "INVOICE", score |-> 60, reasons |-> <<"TOTALS_PLUS_ADDRESS_BLOCK">>]
     ELSE [label |-> "UNKNOWN", score |-> 20, reasons |-> <<"NO_STRONG_HEADER_MATCH">>]

scorePage(text) ==
  LET has(re) == re \in text.has
      isPO == has("PURCHASE ORDER") \/ has("HUNTINGTON HARDWARE")
      isINVOICE == has("INVOICE") /\ ~has("INVOICE TO")
      isSO == has("SALES ORDER")
      isPICK == has("PICKING SHEET")
      isCM == has("CREDIT MEMO")
      isEMAIL == has("FROM:") /\ has("SUBJECT:")
      hasTotals == has("SUBTOTAL") \/ has("TOTAL") \/ has("AMOUNT")
      hasShipTo == has("SHIP TO")
      hasBillTo == has("BILL TO") \/ has("SOLD TO")
  IN IF text.len < MinTextLen
       THEN [label |-> "UNKNOWN", score |-> 10, reasons |-> <<"NO_TEXT_OR_TOO_SHORT">>]
     ELSE IF isEMAIL THEN [label |-> "EMAIL_COVER", score |-> 90, reasons |-> <<"EMAIL_HEADERS">>]
     ELSE IF isCM THEN [label |-> "CREDIT_MEMO", score |-> 95, reasons |-> <<"CREDIT_MEMO_HEADER">>]
     ELSE IF isPO THEN [label |-> "PURCHASE_ORDER", score |-> 95, reasons |-> <<"PURCHASE_ORDER_HEADER">>]
     ELSE IF isSO THEN [label |-> "SALES_ORDER", score |-> 90, reasons |-> <<"SALES_ORDER_HEADER">>]
     ELSE IF isINVOICE THEN [label |-> "INVOICE", score |-> 90, reasons |-> <<"INVOICE_HEADER">>]
     ELSE IF isPICK THEN [label |-> "PICKING_SHEET", score |-> 90, reasons |-> <<"PICKING_SHEET_HEADER">>]
     ELSE IF hasTotals /\ (hasShipTo \/ hasBillTo)
       THEN [label |-> "INVOICE", score |-> 60, reasons |-> <<"TOTALS_PLUS_ADDRESS_BLOCK">>]
     ELSE [label |-> "UNKNOWN", score |-> 20, reasons |-> <<"NO_STRONG_HEADER_MATCH">>]

\* pageIndex is 0-based: the page at position i of the sequence has index i - 1
triagePages(texts) ==
  [i \in 1..Len(texts) |->
     LET scored == scorePage(texts[i])
     IN [pageIndex |-> i - 1, text |-> texts[i], label |-> scored.label,
         score |-> scored.score, reasons |-> scored.reasons]]

\* `current` is <<>> for null and <<segment>> for an open segment
NewSegment(p) ==
  [segmentId |-> <<"seg", p.pageIndex, p.label>>, label |-> p.label,
   pageStart |-> p.pageIndex, pageEnd |-> p.pageIndex,
   pages |-> <<p.pageIndex>>, triage |-> <<p>>]

\* a page splits only on a change of label
shouldSplit_labelOnly(current, p) ==
  \/ current = <<>>
  \/ p.label # current[1].label

shouldSplit(current, p) ==
  \/ current = <<>>
  \/ p.label # current[1].label
  \/ p.label = "UNKNOWN"
  \/ current[1].label = "UNKNOWN"

\* the loop of lines 144-166 from page i on, and the final push() of line 168
RECURSIVE SegmentScan(_, _, _, _)
SegmentScan(tr, i, done, current) ==
  IF i > Len(tr) THEN done \o current
  ELSE IF shouldSplit(current, tr[i])
       THEN SegmentScan(tr, i + 1, done \o current, <<NewSegment(tr[i])>>)
       ELSE SegmentScan(tr, i + 1, done,
              <<[current[1] EXCEPT !.pageEnd = tr[i].pageIndex,
                                   !.pages = Append(@, tr[i].pageIndex),
                                   !.triage = Append(@, tr[i])]>>)

\* without the push() after the loop
buildSegments_noFinalPush(tr) ==
  LET all == SegmentScan(tr, 1, <<>>, <<>>)
  IN IF all = <<>> THEN <<>> ELSE SubSeq(all, 1, Len(all) - 1)

buildSegments(tr) == SegmentScan(tr, 1, <<>>, <<>>)

\* ------------------------------------------------------------------------
\* services/policyRouting.ts and the exclusion rules of the policy
\* (setup/orgProfile.types.ts). The gates are in hundredths.
\* ------------------------------------------------------------------------
ExclusionAction == {"HUMAN_REVIEW", "MANUAL_PROCESS", "BLOCK"}

\* an ExclusionRule: scope_doc_type = {} when the rule is not scoped
MkRule(reasonCode, action, scope) ==
  [reason_code |-> reasonCode, action |-> action, scope_doc_type |-> scope]

\* the trigger of a rule: its reason code is on the row, and the row's document
\* type is in the rule's scope when the rule is scoped
RuleMatches(rule, row) ==
  /\ rule.reason_code \in row.edge_case_flags
  /\ rule.scope_doc_type = {} \/ row.doc_type \in rule.scope_doc_type

\* the lane an action forces
ActionLane(action) == IF action = "BLOCK" THEN "BLOCK" ELSE "REVIEW"

PolicyGates == [auto_process_min |-> 90, review_min |-> 75, block_below |-> 50]

\* the lane computed from the confidence gates
GateLane(conf) ==
  IF conf >= PolicyGates.auto_process_min THEN "AUTO"
  ELSE IF conf < PolicyGates.block_below THEN "BLOCK" ELSE "REVIEW"

\* the computed lane, overridden by a matching exclusion rule (the strictest
\* action when several rules match)
routeRow(row, rules) ==
  LET hits == {rule \in rules : RuleMatches(rule, row)}
  IN IF hits = {}
       THEN [row EXCEPT !.automation_lane = GateLane(row.confidence_score)]
     ELSE [row EXCEPT
             !.automation_lane =
                IF \E rule \in hits : rule.action = "BLOCK" THEN "BLOCK" ELSE "REVIEW",
             !.routing_reason = "Blocked by policy"]

applyPolicyRouting(rs, rules) == [i \in 1..Len(rs) |-> routeRow(rs[i], rules)]

\* ------------------------------------------------------------------------
\* services/mappingService.ts
\* ------------------------------------------------------------------------
\* A parsed document is [doc_id, doc_type, lines]; a line is
\* [text, is_zero_dollar, conf]: the grounding terms of its item number and
\* description, the outcome of classifyZeroDollar on its quantity and prices,
\* and its line_confidence.
LineFlags(docType, line) ==
  (IF line.is_zero_dollar THEN {"ZERO_DOLLAR"} ELSE {})
  \cup (IF docType = "CREDIT_MEMO" THEN {"CREDIT_MEMO"} ELSE {})

\* lines 148-161: the review fields forced by the document type; those that
\* come from the field confidences and from the RGA, layout and dimension
\* flags are not kept, a line carrying neither
ForcedReviewFields(docType) ==
  IF docType = "CREDIT_MEMO"
    THEN <<"doc_type", "extended_price", "unit_price", "customer_item_desc_raw">>
    ELSE <<>>

geminiResultToPOLineRows(doc, rules) ==
  applyPolicyRouting(
    [i \in 1..Len(doc.lines) |->
       [MkRow(doc.doc_id, doc.doc_type, i, doc.lines[i].text, doc.lines[i].conf,
              "ASSIST", LineFlags(doc.doc_type, doc.lines[i]), "Parsed")
          EXCEPT !.fields_requiring_review = ForcedReviewFields(doc.doc_type)]],
    rules)

\* ------------------------------------------------------------------------
\* types.ts: coerceTruthTable, computeCalibration, suggestGates
\*
\* A predicted_confidence and a correct value as read from the table are kept
\* in hundredths (60 is 0.6, 9000 is 90); a normalized confidence and a
\* threshold are kept in ten-thousandths (9000 is 0.9), so that c / 100 is
\* exact; a ratio of counts is kept as numerator and denominator.  The
\* quotients b / bins and c / 100 are correctly rounded doubles and compare
\* with the parsed confidences as the exact values do.  1 - empAcc is inexact
\* in doubles when the error rate is nonzero (1 - 0.98 > 0.02), so the tables
\* checked never put a nonzero error rate exactly on maxError.
\* ------------------------------------------------------------------------
Rat(n, d) == [num |-> n, den |-> d]

Abs(x) == IF x < 0 THEN 0 - x ELSE x

\* the sum of f[i] over the indexes i of S between lo and hi
RECURSIVE SumRange(_, _, _, _)
SumRange(f, S, lo, hi) ==
  IF lo > hi THEN 0
  ELSE IF lo = hi THEN (IF lo \in S THEN f[lo] ELSE 0)
  ELSE LET mid == (lo + hi) \div 2
       IN SumRange(f, S, lo, mid) + SumRange(f, S, mid + 1, hi)

\* the sum of f[i] over the indexes i in S
SumOver(f, S) ==
  IF S = {} THEN 0
  ELSE LET lo == CHOOSE i \in S : \A j \in S : i <= j
           hi == CHOOSE i \in S : \A j \in S : i >= j
       IN SumRange(f, S, lo, hi)

\* safeNum: a cell that is empty or not a finite number is undefined
safeNum(cell) == IF cell.finite THEN <<cell.val>> ELSE <<>>

\* coerceTruthTable: the rows whose predicted and correct cells are finite
\* numbers, in order
coerceTruthTable(rawRows) ==
  LET usable(r) == safeNum(r.predicted) # <<>> /\ safeNum(r.correct) # <<>>
      kept == SelectSeq(rawRows, usable)
  IN [i \in 1..Len(kept) |->
        [predicted_confidence |-> safeNum(kept[i].predicted)[1],
         correct |-> safeNum(kept[i].correct)[1]]]

\* the thresholds of coverage_by_threshold
CoverageThresholds == <<5000, 6000, 7000, 7500, 8000, 8500, 9000, 9200, 9500, 9800>>

ScaleCutoff == 150

\* the confidence scale detected for the table
DetectScale(tRows) ==
  IF \E i \in 1..Len(tRows) : tRows[i].predicted_confidence > ScaleCutoff
    THEN "0_100" ELSE "0_1"

\* norm without the clamp
norm_unclamped(c, scale) == IF scale = "0_100" THEN c ELSE c * 100

\* norm: divide by 100 on the 0-100 scale, then clamp to [0, 1]
norm(c, scale) ==
  LET v == IF scale = "0_100" THEN c ELSE c * 100
  IN Min(10000, Max(0, v))

\* the indexes of the confidences in bin b (0-based) of bins: every bin closed
InBin_closed(p, b, bins) ==
  {i \in DOMAIN p : p[i] * bins >= b * 10000 /\ p[i] * bins <= (b + 1) * 10000}

\* the indexes of the confidences in bin b (0-based) of bins
InBin(p, b, bins) ==
  {i \in DOMAIN p :
     IF b = bins - 1
       THEN p[i] * bins >= b * 10000 /\ p[i] * bins <= (b + 1) * 10000
       ELSE p[i] * bins >= b * 10000 /\ p[i] * bins < (b + 1) * 10000}

\* one entry of coverage_by_threshold counting the rows at or below t
CoverageAt_below(p, y, t) ==
  LET idx == {i \in DOMAIN p : p[i] <= t}
      count == Cardinality(idx)
  IN IF count = 0
       THEN [threshold |-> t, auto_rate |-> Rat(0, 1), expected_error_rate |-> Rat(0, 1)]
       ELSE [threshold |-> t, auto_rate |-> Rat(count, Len(p)),
             expected_error_rate |-> Rat(count - SumOver(y, idx), count)]

\* one entry of coverage_by_threshold with auto_rate taken over the bucket
CoverageAt_ofBucket(p, y, t) ==
  LET idx == {i \in DOMAIN p : p[i] >= t}
      count == Cardinality(idx)
  IN IF count = 0
       THEN [threshold |-> t, auto_rate |-> Rat(0, 1), expected_error_rate |-> Rat(0, 1)]
       ELSE [threshold |-> t, auto_rate |-> Rat(count, count),
             expected_error_rate |-> Rat(count - SumOver(y, idx), count)]

\* one entry of coverage_by_threshold
CoverageAt(p, y, t) ==
  LET idx == {i \in DOMAIN p : p[i] >= t}
      count == Cardinality(idx)
  IN IF count = 0
       THEN [threshold |-> t, auto_rate |-> Rat(0, 1), expected_error_rate |-> Rat(0, 1)]
       ELSE [threshold |-> t, auto_rate |-> Rat(count, Len(p)),
             expected_error_rate |-> Rat(count - SumOver(y, idx), count)]

\* computeCalibration on a table with at least one row; normalized is the
\* local list p of normalized confidences.  The Brier score, the field-level
\* accuracies and the signal distribution are separate sums over the same
\* rows and are not part of the record kept here.
computeCalibration(tRows, bins) ==
  LET n == Len(tRows)
      scale == DetectScale(tRows)
      p == [i \in 1..n |-> norm(tRows[i].predicted_confidence, scale)]
      y == [i \in 1..n |-> IF tRows[i].correct >= 50 THEN 1 ELSE 0]
      bin(b) ==
        LET idx == InBin(p, b, bins)
            count == Cardinality(idx)
        IN IF count = 0
             THEN [bin_min |-> Rat(b, bins), bin_max |-> Rat(b + 1, bins),
                   avg_pred |-> Rat(0, 1), empirical_acc |-> Rat(0, 1), count |-> 0]
             ELSE [bin_min |-> Rat(b, bins), bin_max |-> Rat(b + 1, bins),
                   avg_pred |-> Rat(SumOver(p, idx), count * 10000),
                   empirical_acc |-> Rat(SumOver(y, idx), count), count |-> count]
      gap == [b \in 0..(bins - 1) |->
                LET idx == InBin(p, b, bins)
                IN Abs(SumOver(p, idx) - 10000 * SumOver(y, idx))]
  IN [n_rows |-> n,
      confidence_scale_detected |-> scale,
      normalized |-> p,
      accuracy |-> Rat(SumOver(y, 1..n), n),
      ece |-> Rat(SumOver(gap, 0..(bins - 1)), n * 10000),
      reliability_bins |-> [k \in 1..bins |-> bin(k - 1)],
      coverage_by_threshold |->
        [k \in 1..Len(CoverageThresholds) |-> CoverageAt(p, y, CoverageThresholds[k])]]

\* Number(x.toFixed(2)): a value in ten-thousandths rounded to hundredths
toFixed2(x) == (x + 50) \div 100

DefaultAuto == 9500

ReviewBand == 1500

ReviewCap == 8500

BlockBelow == 5000

\* the entries of the coverage that qualify for automatic processing
GateCandidates(cov, maxErr) ==
  {k \in 1..Len(cov) :
     /\ cov[k].auto_rate.num > 0
     /\ cov[k].expected_error_rate.num * 10000 <= maxErr * cov[k].expected_error_rate.den}

\* suggestGates taking the highest qualifying threshold
suggestGates_highest(cov, maxErr) ==
  LET cand == GateCandidates(cov, maxErr)
      auto == IF cand # {}
                THEN cov[CHOOSE k \in cand : \A j \in cand : cov[k].threshold >= cov[j].threshold].threshold
                ELSE DefaultAuto
      review == Min(auto - ReviewBand, ReviewCap)
  IN [auto_process_min |-> toFixed2(auto),
      review_min |-> toFixed2(Max(0, review)),
      block_below |-> toFixed2(BlockBelow)]

\* suggestGates with the review gate at the automatic gate
suggestGates_noBand(cov, maxErr) ==
  LET cand == GateCandidates(cov, maxErr)
      auto == IF cand # {}
                THEN cov[CHOOSE k \in cand : \A j \in cand : cov[k].threshold <= cov[j].threshold].threshold
                ELSE DefaultAuto
      review == Min(auto, ReviewCap)
  IN [auto_process_min |-> toFixed2(auto),
      review_min |-> toFixed2(Max(0, review)),
      block_below |-> toFixed2(BlockBelow)]

\* suggestGates: the lowest threshold whose automatic bucket keeps the error
\* rate within maxErr, the review gate 0.15 below it, the block gate at 0.50
suggestGates(cov, maxErr) ==
  LET cand == GateCandidates(cov, maxErr)
      auto == IF cand # {}
                THEN cov[CHOOSE k \in cand : \A j \in cand : cov[k].threshold <= cov[j].threshold].threshold
                ELSE DefaultAuto
      review == Min(auto - ReviewBand, ReviewCap)
  IN [auto_process_min |-> toFixed2(auto),
      review_min |-> toFixed2(Max(0, review)),
      block_below |-> toFixed2(BlockBelow)]

\* ------------------------------------------------------------------------
\* services/edgeCases.ts: deriveItemClass, computeFieldConfidence
\* ------------------------------------------------------------------------
ItemClass == {"CATALOG", "CONFIGURED", "CUSTOM", "UNKNOWN"}

\* an optional number: <<>> when it is missing (not of type number), <<n>>
\* otherwise
IsNumber(v) == v # <<>>

\* classifyZeroDollar without the test that the quantity is not 0
classifyZeroDollar_anyQty(qty, unitPrice, extPrice) ==
  IF IsNumber(qty)
    THEN (IsNumber(unitPrice) /\ unitPrice[1] = 0) \/ (IsNumber(extPrice) /\ extPrice[1] = 0)
    ELSE FALSE

\* classifyZeroDollar: an ordered quantity exists and a price is 0
classifyZeroDollar(qty, unitPrice, extPrice) ==
  IF IsNumber(qty) /\ qty[1] # 0
    THEN (IsNumber(unitPrice) /\ unitPrice[1] = 0) \/ (IsNumber(extPrice) /\ extPrice[1] = 0)
    ELSE FALSE

\* deriveItemClass with the configured tier tried first
deriveItemClass_configuredFirst(base, flags, isZeroDollar) ==
  LET hard == "SPECIAL_LAYOUT" \in flags \/ "CUSTOM_DIMENSION" \in flags
                \/ isZeroDollar \/ "RGA_REFERENCE" \in flags
      configured == "WIRING_SPEC" \in flags \/ "POWER_TRANSFER" \in flags
  IN IF configured THEN "CONFIGURED"
     ELSE IF hard THEN "CUSTOM"
     ELSE base

deriveItemClass(base, flags, isZeroDollar) ==
  LET hard == "SPECIAL_LAYOUT" \in flags \/ "CUSTOM_DIMENSION" \in flags
                \/ isZeroDollar \/ "RGA_REFERENCE" \in flags
      configured == "WIRING_SPEC" \in flags \/ "POWER_TRANSFER" \in flags
  IN IF hard THEN "CUSTOM"
     ELSE IF configured THEN "CONFIGURED"
     ELSE base

\* clamp01 on hundredths
clamp01(x) == IF x < 0 THEN 0 ELSE IF x > 100 THEN 100 ELSE x

\* computeFieldConfidence with pricing expected on every document type
computeFieldConfidence_priceAlways(row) ==
  LET base == clamp01(IF row.confidence_score = NoConf THEN 0 ELSE row.confidence_score)
      priceExpected == TRUE
      has(flag) == flag \in row.edge_case_flags
      penalties ==
        [customer_item_no |->
           (IF row.customer_item_no THEN 0 ELSE 25) + (IF has("CUSTOM_DIMENSION") THEN 5 ELSE 0),
         qty |-> IF row.qty THEN 0 ELSE 25,
         unit_price |->
           (IF priceExpected THEN (IF row.unit_price THEN 0 ELSE 15) ELSE 0)
             + (IF has("ZERO_DOLLAR") /\ priceExpected THEN 20 ELSE 0),
         extended_price |->
           (IF priceExpected THEN (IF row.extended_price THEN 0 ELSE 10) ELSE 0)
             + (IF has("ZERO_DOLLAR") /\ priceExpected THEN 20 ELSE 0),
         uom |-> IF row.uom THEN 0 ELSE 10,
         customer_item_desc_raw |->
           (IF row.customer_item_desc_raw THEN 0 ELSE 10)
             + (IF has("SPECIAL_LAYOUT") THEN 15 ELSE 0)
             + (IF has("CUSTOM_DIMENSION") THEN 10 ELSE 0)
             + (IF has("RGA_REFERENCE") THEN 15 ELSE 0)]
  IN [k \in DOMAIN penalties |-> clamp01(base - penalties[k])]

\* computeFieldConfidence: row.customer_item_no, qty, ... tell whether the
\* field is present; the result maps each field to base minus its penalties
computeFieldConfidence(row) ==
  LET base == clamp01(IF row.confidence_score = NoConf THEN 0 ELSE row.confidence_score)
      priceExpected == row.doc_type # "PICKING_SHEET" /\ row.doc_type # "EMAIL_COVER"
      has(flag) == flag \in row.edge_case_flags
      penalties ==
        [customer_item_no |->
           (IF row.customer_item_no THEN 0 ELSE 25) + (IF has("CUSTOM_DIMENSION") THEN 5 ELSE 0),
         qty |-> IF row.qty THEN 0 ELSE 25,
         unit_price |->
           (IF priceExpected THEN (IF row.unit_price THEN 0 ELSE 15) ELSE 0)
             + (IF has("ZERO_DOLLAR") /\ priceExpected THEN 20 ELSE 0),
         extended_price |->
           (IF priceExpected THEN (IF row.extended_price THEN 0 ELSE 10) ELSE 0)
             + (IF has("ZERO_DOLLAR") /\ priceExpected THEN 20 ELSE 0),
         uom |-> IF row.uom THEN 0 ELSE 10,
         customer_item_desc_raw |->
           (IF row.customer_item_desc_raw THEN 0 ELSE 10)
             + (IF has("SPECIAL_LAYOUT") THEN 15 ELSE 0)
             + (IF has("CUSTOM_DIMENSION") THEN 10 ELSE 0)
             + (IF has("RGA_REFERENCE") THEN 15 ELSE 0)]
  IN [k \in DOMAIN penalties |-> clamp01(base - penalties[k])]

\* ------------------------------------------------------------------------
\* services/geminiService.ts 395-548 (regression harness): buildSignature,
\* diffSignatures
\*
\* A parsed document is kept as the fields buildSignature reads; an optional
\* field is <<>> when missing and <<v>> otherwise.
\* ------------------------------------------------------------------------
\* the decimal digits of a natural number
RECURSIVE Digits(_)
Digits(n) == IF n < 10 THEN <<n>> ELSE Append(Digits(n \div 10), n % 10)

\* the document types in collation order; none is a prefix of another, so a
\* type compares as one symbol
DocTypeOrder == <<"CREDIT_MEMO", "INVOICE", "PURCHASE_ORDER", "UNKNOWN">>

DocTypeSymbol(t) == 100 + (CHOOSE k \in 1..Len(DocTypeOrder) : DocTypeOrder[k] = t)

\* the separator "|", which collates before every digit and letter
Bar == 0 - 1

MissingPage == 9999

OrElse(opt, dflt) == IF opt = <<>> THEN dflt ELSE opt[1]

\* the sort key `${doc_type}|${page_start ?? 9999}|${page_end ?? 9999}|${line_count}`
\* as its sequence of symbols
SortKey(sig) ==
  <<DocTypeSymbol(sig.doc_type), Bar>> \o Digits(OrElse(sig.page_start, MissingPage))
    \o <<Bar>> \o Digits(OrElse(sig.page_end, MissingPage))
    \o <<Bar>> \o Digits(sig.line_count)

\* ka.localeCompare(kb): negative, zero or positive
RECURSIVE localeCompare(_, _)
localeCompare(ka, kb) ==
  IF ka = <<>> /\ kb = <<>> THEN 0
  ELSE IF ka = <<>> THEN 0 - 1
  ELSE IF kb = <<>> THEN 1
  ELSE IF Head(ka) < Head(kb) THEN 0 - 1
  ELSE IF Head(ka) > Head(kb) THEN 1
  ELSE localeCompare(Tail(ka), Tail(kb))

\* one step of the stable sort: x goes behind every element that does not
\* compare greater
RECURSIVE InsertSorted(_, _)
InsertSorted(x, sorted) ==
  IF sorted = <<>> THEN <<x>>
  ELSE IF localeCompare(SortKey(x), SortKey(Head(sorted))) < 0 THEN <<x>> \o sorted
  ELSE <<Head(sorted)>> \o InsertSorted(x, Tail(sorted))

\* Array.prototype.sort with the key comparator: stable
RECURSIVE SortDocSigs(_)
SortDocSigs(sigs) ==
  IF sigs = <<>> THEN <<>>
  ELSE InsertSorted(sigs[Len(sigs)], SortDocSigs(SubSeq(sigs, 1, Len(sigs) - 1)))

\* the projection of one parsed document
DocSignatureOf(d) ==
  [doc_id |-> d.document_id,
   doc_type |-> IF d.document_type = "" THEN "UNKNOWN" ELSE d.document_type,
   page_start |-> d.page_start,
   page_end |-> d.page_end,
   source_pages_count |-> d.source_pages_count,
   line_count |-> d.line_count,
   customer_order_no |-> d.customer_order_no]

\* buildSignature; created_at is the wall clock and is not kept
buildSignature(filename, fileHash, docs) ==
  LET docSigs == SortDocSigs([i \in 1..Len(docs) |-> DocSignatureOf(docs[i])])
  IN [schema |-> "regression.signature.v1",
      file_hash |-> fileHash,
      filename |-> filename,
      doc_count |-> Len(docSigs),
      docs |-> docSigs]

\* the loop of diffSignatures from position i on; a finding is <<kind, i>>
RECURSIVE DiffScan(_, _, _, _, _)
DiffScan(b, c, i, errors, warnings) ==
  IF i > Max(Len(b), Len(c)) THEN [errors |-> errors, warnings |-> warnings]
  ELSE IF i > Len(b) THEN DiffScan(b, c, i + 1, Append(errors, <<"EXTRA_DOC", i>>), warnings)
  ELSE IF i > Len(c) THEN DiffScan(b, c, i + 1, Append(errors, <<"MISSING_DOC", i>>), warnings)
  ELSE
    LET e1 == IF b[i].doc_type # c[i].doc_type
                THEN Append(errors, <<"TYPE_CHANGED", i>>) ELSE errors
        w1 == IF b[i].page_start # c[i].page_start \/ b[i].page_end # c[i].page_end
                THEN Append(warnings, <<"PAGE_RANGE_CHANGED", i>>) ELSE warnings
        w2 == IF b[i].line_count # c[i].line_count
                THEN Append(w1, <<"LINE_COUNT_CHANGED", i>>) ELSE w1
        e2 == IF c[i].doc_id = "" THEN Append(e1, <<"MISSING_DOCUMENT_ID", i>>) ELSE e1
    IN DiffScan(b, c, i + 1, e2, w2)

\* diffSignatures with warnings counted as failures
diffSignatures_strict(baseline, current) ==
  LET first == IF baseline.doc_count # current.doc_count
                 THEN <<<<"DOC_COUNT_CHANGED", 0>>>> ELSE <<>>
      found == DiffScan(baseline.docs, current.docs, 1, first, <<>>)
  IN [ok |-> Len(found.errors) = 0 /\ Len(found.warnings) = 0,
      errors |-> found.errors, warnings |-> found.warnings]

diffSignatures(baseline, current) ==
  LET first == IF baseline.doc_count # current.doc_count
                 THEN <<<<"DOC_COUNT_CHANGED", 0>>>> ELSE <<>>
      found == DiffScan(baseline.docs, current.docs, 1, first, <<>>)
  IN [ok |-> Len(found.errors) = 0, errors |-> found.errors, warnings |-> found.warnings]

\* ------------------------------------------------------------------------
\* Inputs
\* ------------------------------------------------------------------------
WithLineNos(rs) == [i \in 1..Len(rs) |-> [rs[i] EXCEPT !.line_no = i]]

Texts == SUBSET {"MFR", "FINISH", "CATEGORY"}

\* rows as they reach enrichAndValidate: any document type, any grounding
\* outcome, a low-confidence ASSIST row or a high-confidence AUTO row
\* the second kind of row has come through the mapper with quantity, prices,
\* a note and a rule id
EnrichRows ==
  {MkRow("D1", t, 0, x, 30, "ASSIST", {}, "Parsed") :
     t \in {"PURCHASE_ORDER", "PICKING_SHEET", "EMAIL_COVER"}, x \in Texts}
  \cup
  {[MkRow("D1", t, 0, x, 95, "AUTO", {}, "Parsed")
      EXCEPT !.qty = <<5>>, !.unit_price = <<10>>, !.extended_price = <<50>>,
             !.raw_edge_case_notes = <<"special layout">>,
             !.policy_rule_ids_applied = {"POLICY:default"}] :
     t \in {"PURCHASE_ORDER", "PICKING_SHEET", "EMAIL_COVER"}, x \in Texts}

\* rows as they reach buildPOExportsV1: any lane, any confidence
ExportRows ==
  {MkRow(sig[1], sig[2], 0, {}, c, l, sig[3], sig[4]) :
     c \in {NoConf, 60, 80},
     l \in AutomationLane,
     sig \in {<<"D1", "PURCHASE_ORDER", {}, "Parsed">>,
              <<"D2", "PURCHASE_ORDER", {}, "Parsed">>,
              <<"D2", "CREDIT_MEMO", {"CREDIT_MEMO", "ZERO_DOLLAR"}, "POLICY_BLOCK">>}}

\* auto_stage_min / review_min, in hundredths; the last has review_min above
\* auto_stage_min
ThresholdChoices ==
  {[auto_stage_min |-> 90, review_min |-> 70],
   [auto_stage_min |-> 80, review_min |-> 60],
   [auto_stage_min |-> 70, review_min |-> 90]}

DefaultThresholds == [auto_stage_min |-> 90, review_min |-> 70]

\* the queue, the export and the packet state, left alone by the setup wizard
pipeVars == <<rows, mapped, thresholds, exports, refPack, exclusions, pageTexts, triage, segs>>

PipeIdle ==
  /\ rows = <<>>
  /\ mapped = <<>>
  /\ thresholds = DefaultThresholds
  /\ exports = <<>>
  /\ refPack = TRUE
  /\ exclusions = {}
  /\ pageTexts = <<>>
  /\ triage = <<>>
  /\ segs = <<>>

DefaultBins == 10

\* the setup wizard before any upload: no calibration data (<<>> is null) and
\* the default gates 0.92 / 0.75 / 0.50
WizardIdle ==
  /\ upload = <<>>
  /\ truthRows = <<>>
  /\ nBins = DefaultBins
  /\ calibrationData = <<>>
  /\ autoMin = 92
  /\ reviewMin = 75
  /\ blockBelow = 50
  /\ isCalibrating = FALSE

GatesIdle ==
  /\ coverage = <<>>
  /\ maxError = 0
  /\ gates = <<>>

RunIdle ==
  /\ runs = <<>>
  /\ isProcessing = FALSE
  /\ lastError = <<>>
  /\ progress = 0
  /\ processingStatus = ""
  /\ setupOk = TRUE

SigIdle ==
  /\ docsFirst = <<>>
  /\ docsSecond = <<>>
  /\ baselineSig = <<>>
  /\ currentSig = <<>>
  /\ regressionDiff = <<>>

LineIdle ==
  /\ lineRow = <<>>
  /\ fieldConf = <<>>
  /\ itemClass = ""
  /\ zeroDollar = FALSE

\* ------------------------------------------------------------------------
\* enrichAndValidate applied to arbitrary rows
\* ------------------------------------------------------------------------
InitEnrich ==
  /\ mapped \in {WithLineNos(rs) : rs \in SeqsUpTo(EnrichRows, MaxRows)}
  /\ rows = <<>>
  /\ thresholds = DefaultThresholds
  /\ exports = <<>>
  /\ refPack = TRUE
  /\ exclusions = {}
  /\ pageTexts = <<>>
  /\ triage = <<>>
  /\ segs = <<>>
  /\ step = "mapped"
  /\ WizardIdle /\ GatesIdle /\ LineIdle /\ SigIdle /\ RunIdle

EnrichAndValidate ==
  /\ step = "mapped"
  /\ rows' = enrichAndValidate(mapped)
  /\ step' = "enriched"
  /\ UNCHANGED <<mapped, thresholds, exports, refPack, exclusions, pageTexts, triage, segs>>
  /\ UNCHANGED <<calibVars, gateVars, lineVars, sigVars, runVars>>

NextEnrich == EnrichAndValidate

SpecEnrich == InitEnrich /\ [][NextEnrich]_vars

\* ------------------------------------------------------------------------
\* buildPOExportsV1 applied to arbitrary rows and thresholds
\* ------------------------------------------------------------------------
InitExport ==
  /\ rows \in {WithLineNos(rs) : rs \in SeqsUpTo(ExportRows, MaxRows)}
  /\ mapped = <<>>
  /\ thresholds \in ThresholdChoices
  /\ exports = <<>>
  /\ refPack = TRUE
  /\ exclusions = {}
  /\ pageTexts = <<>>
  /\ triage = <<>>
  /\ segs = <<>>
  /\ step = "rows"
  /\ WizardIdle /\ GatesIdle /\ LineIdle /\ SigIdle /\ RunIdle

\* abhSchema.ts: "SHADOW" | "PILOT" | "PRODUCTION"
RunMode == {"SHADOW", "PRODUCTION"}

BuildExports(runMode) ==
  /\ step = "rows"
  /\ exports' = buildPOExportsV1(rows, thresholds, runMode)
  /\ step' = "exported"
  /\ UNCHANGED <<rows, mapped, thresholds, refPack, exclusions, pageTexts, triage, segs>>
  /\ UNCHANGED <<calibVars, gateVars, lineVars, sigVars, runVars>>

NextExport == \E runMode \in RunMode : BuildExports(runMode)

SpecExport == InitExport /\ [][NextExport]_vars

\* ------------------------------------------------------------------------
\* triagePages and buildSegments applied to a packet of pages
\* ------------------------------------------------------------------------
\* page texts: a purchase order page, a page with a credit memo and a purchase
\* order header, a page with no header, a page that is too short
PageSamples ==
  {[len |-> 400, has |-> {"PURCHASE ORDER"}],
   [len |-> 400, has |-> {"CREDIT MEMO", "PURCHASE ORDER"}],
   [len |-> 400, has |-> {}],
   [len |-> 14, has |-> {"PURCHASE ORDER"}]}

InitSeg ==
  /\ pageTexts \in SeqsUpTo(PageSamples, MaxPages)
  /\ triage = <<>>
  /\ segs = <<>>
  /\ rows = <<>>
  /\ mapped = <<>>
  /\ thresholds = DefaultThresholds
  /\ exports = <<>>
  /\ refPack = TRUE
  /\ exclusions = {}
  /\ step = "texts"
  /\ WizardIdle /\ GatesIdle /\ LineIdle /\ SigIdle /\ RunIdle

TriagePages ==
  /\ step = "texts"
  /\ triage' = triagePages(pageTexts)
  /\ step' = "triaged"
  /\ UNCHANGED <<rows, mapped, thresholds, exports, refPack, exclusions, pageTexts, segs>>
  /\ UNCHANGED <<calibVars, gateVars, lineVars, sigVars, runVars>>

BuildSegments ==
  /\ step = "triaged"
  /\ segs' = buildSegments(triage)
  /\ step' = "segmented"
  /\ UNCHANGED <<rows, mapped, thresholds, exports, refPack, exclusions, pageTexts, triage>>
  /\ UNCHANGED <<calibVars, gateVars, lineVars, sigVars, runVars>>

NextSeg == TriagePages \/ BuildSegments

SpecSeg == InitSeg /\ [][NextSeg]_vars

\* ------------------------------------------------------------------------
\* scorePage applied to one page of arbitrary content
\* ------------------------------------------------------------------------
\* the header phrases scorePage tests for; \bTOTAL\b stands for the totals
\* language and SHIP TO for the address block
HeaderPatterns ==
  {"PURCHASE ORDER", "HUNTINGTON HARDWARE", "INVOICE", "INVOICE TO", "SALES ORDER",
   "PICKING SHEET", "CREDIT MEMO", "FROM:", "SUBJECT:", "TOTAL", "SHIP TO"}

\* /\bINVOICE\b/ matches wherever /\bINVOICE\s+TO\b/ does
ConsistentHas(h) == "INVOICE TO" \in h => "INVOICE" \in h

\* the empty page, pages of 19 characters holding at most one phrase, and
\* long pages holding any combination of phrases
ScoreTexts ==
  {[len |-> 0, has |-> {}]}
    \cup {[len |-> 19, has |-> h] :
            h \in {{}, {"INVOICE", "INVOICE TO"}} \cup {{x} : x \in HeaderPatterns \ {"INVOICE TO", "HUNTINGTON HARDWARE"}}}
    \cup {[len |-> n, has |-> h] :
            n \in {20, 400}, h \in {g \in SUBSET HeaderPatterns : ConsistentHas(g)}}

InitScore ==
  /\ pageTexts \in {<<t>> : t \in ScoreTexts}
  /\ triage = <<>>
  /\ segs = <<>>
  /\ rows = <<>>
  /\ mapped = <<>>
  /\ thresholds = DefaultThresholds
  /\ exports = <<>>
  /\ refPack = TRUE
  /\ exclusions = {}
  /\ step = "texts"
  /\ WizardIdle /\ GatesIdle /\ LineIdle /\ SigIdle /\ RunIdle

NextScore == TriagePages

SpecScore == InitScore /\ [][NextScore]_vars

\* ------------------------------------------------------------------------
\* computeCalibration applied to a truth table
\* ------------------------------------------------------------------------
MaxTruthRows == 3

\* predicted confidences: negative, 0.55, 0.9, 1.5, then 1.6, 90 and 120,
\* which switch the table to the 0-100 scale
PredictedSamples == {0 - 10, 55, 90, 150, 160, 9000, 12000}

TruthSamples ==
  {[predicted_confidence |-> c, correct |-> k] : c \in PredictedSamples, k \in {0, 100}}

BinChoices == {1, 4, 10}

InitCalibration ==
  /\ truthRows \in SeqsUpTo(TruthSamples, MaxTruthRows)
  /\ nBins \in BinChoices
  /\ upload = <<>>
  /\ calibrationData = <<>>
  /\ autoMin = 92
  /\ reviewMin = 75
  /\ blockBelow = 50
  /\ isCalibrating = FALSE
  /\ step = "table"
  /\ PipeIdle /\ GatesIdle /\ LineIdle /\ SigIdle /\ RunIdle

\* computeCalibration(truthRows, nBins): throws on the empty table
ComputeCalibration ==
  /\ step = "table"
  /\ IF Len(truthRows) = 0
       THEN calibrationData' = calibrationData /\ step' = "threw"
       ELSE calibrationData' = <<computeCalibration(truthRows, nBins)>> /\ step' = "calibrated"
  /\ UNCHANGED <<upload, truthRows, nBins, autoMin, reviewMin, blockBelow, isCalibrating>>
  /\ UNCHANGED <<pipeVars, gateVars, lineVars, sigVars, runVars>>

NextCalibration == ComputeCalibration

SpecCalibration == InitCalibration /\ [][NextCalibration]_vars

\* ------------------------------------------------------------------------
\* suggestGates applied to a coverage curve
\* ------------------------------------------------------------------------
\* coverage curves over the ten thresholds: the first k thresholds are reached
\* by some row, with a falling auto_rate and an error rate of 0 or 5% each;
\* the thresholds above are reached by no row
CoverageSamples ==
  {[i \in 1..Len(CoverageThresholds) |->
      IF i <= k
        THEN [threshold |-> CoverageThresholds[i], auto_rate |-> Rat(k - i + 1, k),
              expected_error_rate |-> errs[i]]
        ELSE [threshold |-> CoverageThresholds[i], auto_rate |-> Rat(0, 1),
              expected_error_rate |-> Rat(0, 1)]] :
     k \in 0..Len(CoverageThresholds),
     errs \in [1..Len(CoverageThresholds) -> {Rat(0, 1), Rat(1, 20)}]}

\* the default maxError 0.02 and a lenient 0.10
MaxErrorChoices == {200, 1000}

InitGates ==
  /\ coverage \in CoverageSamples
  /\ maxError \in MaxErrorChoices
  /\ gates = <<>>
  /\ step = "coverage"
  /\ PipeIdle /\ WizardIdle /\ LineIdle /\ SigIdle /\ RunIdle

SuggestGates ==
  /\ step = "coverage"
  /\ gates' = <<suggestGates(coverage, maxError)>>
  /\ step' = "suggested"
  /\ UNCHANGED <<coverage, maxError, pipeVars, calibVars, lineVars, sigVars, runVars>>

NextGates == SuggestGates

SpecGates == InitGates /\ [][NextGates]_vars

\* ------------------------------------------------------------------------
\* The setup wizard: handleValidationUpload (ReferencePackAdmin.tsx)
\* ------------------------------------------------------------------------
MaxUploadRows == 3

Cell(v) == [finite |-> TRUE, val |-> v]

\* an empty cell or one that does not parse to a finite number
NoCell == [finite |-> FALSE, val |-> 0]

\* rows of an uploaded table: confidence 0.6, 0.95 or unusable; correct 0, 1
\* or unusable
RawSamples ==
  {[predicted |-> c, correct |-> k] :
     c \in {Cell(60), Cell(95), NoCell}, k \in {Cell(0), Cell(100), NoCell}}

\* 90 rows at confidence 0.9, all correct, then 10 rows at confidence 0.6 of
\* which 5 are correct
Example100 ==
  [i \in 1..100 |->
     IF i <= 90 THEN [predicted |-> Cell(90), correct |-> Cell(100)]
     ELSE IF i <= 95 THEN [predicted |-> Cell(60), correct |-> Cell(100)]
     ELSE [predicted |-> Cell(60), correct |-> Cell(0)]]

UploadedTables == SeqsUpTo(RawSamples, MaxUploadRows) \cup {Example100}

\* the wizard before the upload: fresh, or showing an earlier calibration
\* with gates edited by hand to 0.80 / 0.60 / 0.40
PriorStates ==
  {[cal |-> <<>>, auto |-> 92, review |-> 75, block |-> 50],
   [cal |-> <<computeCalibration(<<[predicted_confidence |-> 95, correct |-> 100]>>, DefaultBins)>>,
    auto |-> 80, review |-> 60, block |-> 40]}

InitWizard ==
  /\ upload = <<>>
  /\ truthRows = <<>>
  /\ nBins = DefaultBins
  /\ \E prior \in PriorStates :
       /\ calibrationData = prior.cal
       /\ autoMin = prior.auto
       /\ reviewMin = prior.review
       /\ blockBelow = prior.block
  /\ isCalibrating = FALSE
  /\ step = "wizard"
  /\ PipeIdle /\ GatesIdle /\ LineIdle /\ SigIdle /\ RunIdle

\* handleValidationUpload up to the await of file.text(): upload is the
\* table parseCsvToRows will return for the chosen file
BeginValidationUpload ==
  /\ step = "wizard"
  /\ \E file \in UploadedTables : upload' = file
  /\ isCalibrating' = TRUE
  /\ step' = "reading"
  /\ UNCHANGED <<truthRows, nBins, calibrationData, autoMin, reviewMin, blockBelow>>
  /\ UNCHANGED <<pipeVars, gateVars, lineVars, sigVars, runVars>>

\* handleValidationUpload whose catch block also clears the calibration
handleValidationUpload_clearOnFail ==
  /\ step = "reading"
  /\ truthRows' = coerceTruthTable(upload)
  /\ IF Len(truthRows') = 0
       THEN /\ step' = "failed"
            /\ calibrationData' = <<>>
            /\ UNCHANGED <<autoMin, reviewMin, blockBelow>>
       ELSE /\ calibrationData' = <<computeCalibration(truthRows', DefaultBins)>>
            /\ LET computed == calibrationData'[1]
                    suggested == suggestGates(computed.coverage_by_threshold, 200)
               IN /\ autoMin' = suggested.auto_process_min
                  /\ reviewMin' = suggested.review_min
                  /\ blockBelow' = suggested.block_below
                  /\ step' = "analysed"
  /\ isCalibrating' = FALSE
  /\ UNCHANGED <<upload, nBins>>
  /\ UNCHANGED <<pipeVars, gateVars, lineVars, sigVars, runVars>>

\* handleValidationUpload after the await: coerce, calibrate, suggest the
\* gates; an empty table makes computeCalibration throw, the catch block
\* alerts and sets nothing; finally isCalibrating is reset
handleValidationUpload ==
  /\ step = "reading"
  /\ truthRows' = coerceTruthTable(upload)
  /\ IF Len(truthRows') = 0
       THEN /\ step' = "failed"
            /\ UNCHANGED <<calibrationData, autoMin, reviewMin, blockBelow>>
       ELSE /\ calibrationData' = <<computeCalibration(truthRows', DefaultBins)>>
            /\ LET computed == calibrationData'[1]
                    suggested == suggestGates(computed.coverage_by_threshold, 200)
               IN /\ autoMin' = suggested.auto_process_min
                  /\ reviewMin' = suggested.review_min
                  /\ blockBelow' = suggested.block_below
                  /\ step' = "analysed"
  /\ isCalibrating' = FALSE
  /\ UNCHANGED <<upload, nBins>>
  /\ UNCHANGED <<pipeVars, gateVars, lineVars, sigVars, runVars>>

NextWizard ==
  \/ BeginValidationUpload
  \/ handleValidationUpload

SpecWizard == InitWizard /\ [][NextWizard]_vars

\* ------------------------------------------------------------------------
\* computeFieldConfidence applied to one row
\* ------------------------------------------------------------------------
\* confidences: absent, below 0, 0.3, 0.95, above 1
FieldConfidenceRows ==
  {[doc_type |-> d, confidence_score |-> c, customer_item_no |-> f[1], qty |-> f[2],
    unit_price |-> f[3], extended_price |-> f[4], uom |-> f[5],
    customer_item_desc_raw |-> f[6], edge_case_flags |-> flags] :
     d \in {"PURCHASE_ORDER", "PICKING_SHEET", "EMAIL_COVER"},
     c \in {NoConf, 0 - 20, 30, 95, 120},
     f \in [1..6 -> BOOLEAN],
     flags \in SUBSET {"SPECIAL_LAYOUT", "CUSTOM_DIMENSION", "RGA_REFERENCE", "ZERO_DOLLAR"}}

InitField ==
  /\ lineRow \in FieldConfidenceRows
  /\ fieldConf = <<>>
  /\ itemClass = ""
  /\ zeroDollar = FALSE
  /\ step = "row"
  /\ PipeIdle /\ WizardIdle /\ GatesIdle /\ SigIdle /\ RunIdle

ComputeFieldConfidence ==
  /\ step = "row"
  /\ fieldConf' = computeFieldConfidence(lineRow)
  /\ step' = "scored"
  /\ UNCHANGED <<lineRow, itemClass, zeroDollar, pipeVars, calibVars, gateVars, sigVars, runVars>>

NextField == ComputeFieldConfidence

SpecField == InitField /\ [][NextField]_vars

\* ------------------------------------------------------------------------
\* deriveItemClass applied to a base class, a flag list and the zero-dollar
\* signal
\* ------------------------------------------------------------------------
ItemClassFlags ==
  {"SPECIAL_LAYOUT", "CUSTOM_DIMENSION", "RGA_REFERENCE", "WIRING_SPEC", "POWER_TRANSFER",
   "ZERO_DOLLAR"}

InitItemClass ==
  /\ lineRow \in {[base |-> b, flags |-> fl, isZeroDollar |-> z] :
                    b \in ItemClass, fl \in SUBSET ItemClassFlags, z \in BOOLEAN}
  /\ fieldConf = <<>>
  /\ itemClass = ""
  /\ zeroDollar = FALSE
  /\ step = "flags"
  /\ PipeIdle /\ WizardIdle /\ GatesIdle /\ SigIdle /\ RunIdle

DeriveItemClass ==
  /\ step = "flags"
  /\ itemClass' = deriveItemClass(lineRow.base, lineRow.flags, lineRow.isZeroDollar)
  /\ step' = "classified"
  /\ UNCHANGED <<lineRow, fieldConf, zeroDollar, pipeVars, calibVars, gateVars, sigVars, runVars>>

NextItemClass == DeriveItemClass

SpecItemClass == InitItemClass /\ [][NextItemClass]_vars

\* ------------------------------------------------------------------------
\* classifyZeroDollar applied to a quantity and two prices
\* ------------------------------------------------------------------------
\* missing, 0, a negative value and two positive values
OptionalNumbers == {<<>>, <<0>>, <<0 - 3>>, <<5>>, <<10>>, <<50>>}

InitZeroDollar ==
  /\ lineRow \in {[qty |-> q, unit_price |-> u, extended_price |-> e] :
                    q \in OptionalNumbers, u \in OptionalNumbers, e \in OptionalNumbers}
  /\ fieldConf = <<>>
  /\ itemClass = ""
  /\ zeroDollar = FALSE
  /\ step = "prices"
  /\ PipeIdle /\ WizardIdle /\ GatesIdle /\ SigIdle /\ RunIdle

ClassifyZeroDollar ==
  /\ step = "prices"
  /\ zeroDollar' = classifyZeroDollar(lineRow.qty, lineRow.unit_price, lineRow.extended_price)
  /\ step' = "zero-checked"
  /\ UNCHANGED <<lineRow, fieldConf, itemClass, pipeVars, calibVars, gateVars, sigVars, runVars>>

NextZeroDollar == ClassifyZeroDollar

SpecZeroDollar == InitZeroDollar /\ [][NextZeroDollar]_vars

\* ------------------------------------------------------------------------
\* The regression harness on one file (RegressionHarness.tsx): createBaseline
\* stores buildSignature of a first parse, runRegression compares
\* buildSignature of a second parse against it
\* ------------------------------------------------------------------------
MaxDocs == 2

PageRanges == {<<<<>>, <<>>>>, <<<<2>>, <<3>>>>, <<<<10>>, <<10>>>>}

MkDoc(id, type, pages, lines) ==
  [document_id |-> id,
   document_type |-> type,
   page_start |-> pages[1],
   page_end |-> pages[2],
   source_pages_count |-> IF pages[1] = <<>> THEN <<>> ELSE <<pages[2][1] - pages[1][1] + 1>>,
   line_count |-> lines,
   customer_order_no |-> IF id = "D1" THEN <<"PO-1">> ELSE <<>>]

\* parsed documents of one file
ParsedExports ==
  {MkDoc(id, type, pages, lines) :
     id \in {"D1", "D2"}, type \in {"PURCHASE_ORDER", "INVOICE"},
     pages \in PageRanges, lines \in {1, 2}}

\* the same documents in every order
Reorderings(docs) ==
  LET n == Len(docs)
      Perms == {p \in [1..n -> 1..n] : \A i, j \in 1..n : p[i] = p[j] => i = j}
  IN {[i \in 1..n |-> docs[p[i]]] : p \in Perms}

InitSignature ==
  /\ docsFirst \in SeqsUpTo(ParsedExports, MaxDocs)
  /\ docsSecond \in Reorderings(docsFirst)
  /\ baselineSig = <<>>
  /\ currentSig = <<>>
  /\ regressionDiff = <<>>
  /\ step = "parsed"
  /\ PipeIdle /\ WizardIdle /\ GatesIdle /\ LineIdle /\ RunIdle

\* createBaseline for the file
CreateBaseline ==
  /\ step = "parsed"
  /\ baselineSig' = <<buildSignature("packet.pdf", "hash-1", docsFirst)>>
  /\ step' = "baselined"
  /\ UNCHANGED <<docsFirst, docsSecond, currentSig, regressionDiff,
                 pipeVars, calibVars, gateVars, lineVars, runVars>>

\* runRegression for the file
RunRegression ==
  /\ step \in {"parsed", "baselined"}
  /\ currentSig' = <<buildSignature("packet.pdf", "hash-1", docsSecond)>>
  /\ regressionDiff' =
       IF baselineSig = <<>>
         THEN <<[ok |-> FALSE, errors |-> <<<<"NO_BASELINE", 0>>>>, warnings |-> <<>>]>>
         ELSE <<diffSignatures(baselineSig[1], currentSig'[1])>>
  /\ step' = "compared"
  /\ UNCHANGED <<docsFirst, docsSecond, baselineSig, pipeVars, calibVars, gateVars, lineVars,
                 runVars>>

NextRegression == CreateBaseline \/ RunRegression

SpecSignature == InitSignature /\ [][NextRegression]_vars

\* a second parse that differs from the first in single fields of single
\* documents, in a missing document or in an extra one
DocEdits == {"same", "pages", "lines", "type", "noid", "removed"}

EditDoc(d, e) ==
  IF e = "pages"
    THEN [d EXCEPT !.page_start = IF d.page_start = <<>> THEN <<1>> ELSE <<>>,
                   !.page_end = IF d.page_end = <<>> THEN <<1>> ELSE <<>>]
  ELSE IF e = "lines" THEN [d EXCEPT !.line_count = d.line_count + 1]
  ELSE IF e = "type" THEN [d EXCEPT !.document_type = "CREDIT_MEMO"]
  ELSE IF e = "noid" THEN [d EXCEPT !.document_id = ""]
  ELSE d

RECURSIVE EditDocs(_, _, _)
EditDocs(docs, edits, i) ==
  IF i > Len(docs) THEN <<>>
  ELSE IF edits[i] = "removed" THEN EditDocs(docs, edits, i + 1)
  ELSE <<EditDoc(docs[i], edits[i])>> \o EditDocs(docs, edits, i + 1)

DiffExports ==
  {MkDoc(id, "PURCHASE_ORDER", pages, 1) : id \in {"D1", ""}, pages \in {<<<<>>, <<>>>>, <<<<2>>, <<3>>>>}}

ExtraDoc == MkDoc("D2", "INVOICE", <<<<10>>, <<10>>>>, 2)

InitDiff ==
  /\ docsFirst \in SeqsUpTo(DiffExports, MaxDocs)
  /\ \E edits \in [1..Len(docsFirst) -> DocEdits], extra \in BOOLEAN :
       docsSecond = EditDocs(docsFirst, edits, 1) \o (IF extra THEN <<ExtraDoc>> ELSE <<>>)
  /\ baselineSig = <<>>
  /\ currentSig = <<>>
  /\ regressionDiff = <<>>
  /\ step = "parsed"
  /\ PipeIdle /\ WizardIdle /\ GatesIdle /\ LineIdle /\ RunIdle

SpecDiff == InitDiff /\ [][NextRegression]_vars

\* ------------------------------------------------------------------------
\* processFiles as the asynchronous run it is (App.tsx 541-673), started from
\* the Import button / file input and from drag-and-drop.  A run advances
\* from one await to the next in one step; progress is kept in whole percent.
\* ------------------------------------------------------------------------
MaxRuns == 2

PoPage == [len |-> 400, has |-> {"PURCHASE ORDER"}]

CmPage == [len |-> 400, has |-> {"CREDIT MEMO"}]

MailPage == [len |-> 400, has |-> {"FROM:", "SUBJECT:"}]

GroundedLine == [text |-> {"MFR", "FINISH", "CATEGORY"}, is_zero_dollar |-> FALSE, conf |-> 95]

DocPO == [doc_id |-> "D1", doc_type |-> "PURCHASE_ORDER", lines |-> <<GroundedLine>>]

DocCM == [doc_id |-> "D2", doc_type |-> "CREDIT_MEMO", lines |-> <<GroundedLine>>]

\* A file with what its awaits will do: read_throws for fileToBase64 /
\* fileToUint8Array / extractPdfPageText, ocr_throws for Tesseract.recognize,
\* results[k] for the extraction call of the image (k = 1) or of segment k of
\* the packet: <<>> when it throws, <<doc>> when it returns doc.
ImageFile(ocrThrows, result) ==
  [type |-> "image/png", pages |-> <<>>, read_throws |-> FALSE, ocr_throws |-> ocrThrows,
   results |-> <<result>>]

PdfFile(pages, readThrows, results) ==
  [type |-> "application/pdf", pages |-> pages, read_throws |-> readThrows,
   ocr_throws |-> FALSE, results |-> results]

PacketOk == PdfFile(<<PoPage, MailPage, CmPage>>, FALSE, <<<<DocPO>>, <<>>, <<DocCM>>>>)

PacketSecondFails == PdfFile(<<PoPage, CmPage>>, FALSE, <<<<DocPO>>, <<>>>>)

PacketUnreadable == PdfFile(<<PoPage>>, TRUE, <<<<>>>>)

PacketCoverOnly == PdfFile(<<MailPage>>, FALSE, <<<<>>>>)

\* the file lists a user imports or drops
FileLists ==
  {<<>>,
   <<ImageFile(TRUE, <<DocPO>>)>>,
   <<PacketOk>>,
   <<PacketSecondFails>>,
   <<PacketUnreadable>>,
   <<PacketCoverOnly>>,
   <<ImageFile(FALSE, <<DocPO>>), ImageFile(FALSE, <<DocCM>>)>>,
   <<ImageFile(FALSE, <<DocCM>>), ImageFile(FALSE, <<>>)>>}

\* lines 608-619 / 648-659: the rows of one extraction result
MappedRows(doc, rules, pack) ==
  LET mappedRows == geminiResultToPOLineRows(doc, rules)
  IN IF pack THEN enrichAndValidate(mappedRows) ELSE mappedRows

IsPdf(f) == f.type = "application/pdf"

\* the state a run writes besides its own locals
Shared ==
  [rows |-> rows, isProcessing |-> isProcessing, lastError |-> lastError,
   progress |-> progress, status |-> processingStatus]

Out(run, g) == [run |-> run, g |-> g]

\* catch and finally that add the rows gathered before the failure
catchFinally_partial(run, g) ==
  Out([run EXCEPT !.pc = "done"],
      [g EXCEPT !.rows = run.allNewRows \o g.rows,
                !.lastError = <<"Critical Processing Error">>,
                !.isProcessing = FALSE, !.progress = 0, !.status = ""])

\* lines 663-671: catch, then finally
catchFinally(run, g) ==
  Out([run EXCEPT !.pc = "done"],
      [g EXCEPT !.lastError = <<"Critical Processing Error">>,
                !.isProcessing = FALSE, !.progress = 0, !.status = ""])

\* lines 662 and 666-671: setRows(prev => [...allNewRows, ...prev]), then finally
completeRun(run, g) ==
  Out([run EXCEPT !.pc = "done"],
      [g EXCEPT !.rows = run.allNewRows \o g.rows,
                !.isProcessing = FALSE, !.progress = 0, !.status = ""])

\* lines 574-580 and 622: the iteration of file run.i up to its first await
beginFile(run, g) ==
  IF IsPdf(run.files[run.i])
    THEN Out([run EXCEPT !.pc = "reading"],
             [g EXCEPT !.status = "Analyzing Document Packet",
                       !.progress = (100 * (run.i - 1) + 10) \div Len(run.files)])
    ELSE Out([run EXCEPT !.pc = "reading"], g)

\* Math.round(((i + 1) / filesArray.length) * 100)
RoundedProgress(i, n) == (200 * i + n) \div (2 * n)

\* line 660, then the next iteration up to its pacing await (569-572), or
\* the end of the loop
endFile(run, g) ==
  LET g2 == [g EXCEPT !.progress = RoundedProgress(run.i, Len(run.files))]
  IN IF run.i < Len(run.files)
       THEN Out([run EXCEPT !.i = run.i + 1, !.sIdx = 0, !.segments = <<>>, !.pc = "pacing"],
                [g2 EXCEPT !.status = "Pacing for next file"])
       ELSE completeRun(run, g2)

\* lines 585-592: the segment loop from segment s on, up to the await of
\* renderPdfPagesToPngBase64
RECURSIVE nextSegment(_, _, _)
nextSegment(run, s, g) ==
  IF s > Len(run.segments) THEN endFile(run, g)
  ELSE IF run.segments[s].label = "EMAIL_COVER" THEN nextSegment(run, s + 1, g)
  ELSE Out([run EXCEPT !.sIdx = s, !.pc = "rendering"],
           [g EXCEPT !.status = "Processing segment",
                     !.progress = (100 * (run.i - 1) * Len(run.segments)
                                     + 20 * Len(run.segments) + 80 * s)
                                   \div (Len(run.files) * Len(run.segments))])

NewRun(batch) ==
  [pc |-> "started", files |-> batch, i |-> 1, sIdx |-> 0, segments |-> <<>>,
   allNewRows |-> <<>>]

Active(run) == run.pc \in {"reading", "ocr", "rendering", "extracting", "pacing"}

InFlight(run) == run.pc = "extracting"

Commit(r, out) ==
  /\ runs' = IF r > Len(runs) THEN Append(runs, out.run) ELSE [runs EXCEPT ![r] = out.run]
  /\ rows' = out.g.rows
  /\ isProcessing' = out.g.isProcessing
  /\ lastError' = out.g.lastError
  /\ progress' = out.g.progress
  /\ processingStatus' = out.g.status
  /\ UNCHANGED <<mapped, thresholds, exports, refPack, exclusions, pageTexts, triage, segs, step>>
  /\ UNCHANGED <<calibVars, gateVars, lineVars, sigVars>>

\* lines 541-565: processFiles up to its first await; confirmed is the answer
\* to the confirm() dialog when setup is not complete
processFiles(batch, confirmed) ==
  /\ Len(runs) < MaxRuns
  /\ IF ~setupOk /\ ~confirmed
       THEN /\ lastError' = <<>>
            /\ UNCHANGED <<runs, rows, isProcessing, progress, processingStatus, setupOk>>
            /\ UNCHANGED <<mapped, thresholds, exports, refPack, exclusions, pageTexts, triage,
                           segs, step>>
            /\ UNCHANGED <<calibVars, gateVars, lineVars, sigVars>>
       ELSE /\ setupOk' = TRUE
            /\ LET g == [Shared EXCEPT !.lastError = <<>>, !.isProcessing = TRUE]
                   run == NewRun(batch)
               IN Commit(Len(runs) + 1,
                         IF batch = <<>> THEN completeRun(run, g) ELSE beginFile(run, g))

\* lines 750-754: the Import button is disabled while isProcessing; the file
\* input it opens calls processFiles
ImportFiles(batch, confirmed) ==
  /\ ~isProcessing
  /\ processFiles(batch, confirmed)

\* line 680: onDrop calls processFiles whenever the drop carries files
DropFiles(batch, confirmed) ==
  /\ batch \in FileLists
  /\ processFiles(batch, confirmed)

\* the await of fileToUint8Array / extractPdfPageText (581-583) or of
\* fileToBase64 (624) is over
ReadDone(r) ==
  /\ runs[r].pc = "reading"
  /\ LET run == runs[r]
         f == run.files[run.i]
     IN Commit(r,
          IF f.read_throws THEN catchFinally(run, Shared)
          ELSE IF IsPdf(f)
            THEN nextSegment([run EXCEPT !.segments = buildSegments(triagePages(f.pages))], 1,
                             [Shared EXCEPT !.status = "Found documents"])
            ELSE Out([run EXCEPT !.pc = "ocr"],
                     [Shared EXCEPT !.status = "Running OCR",
                                    !.progress = (100 * (run.i - 1) + 20) \div Len(run.files)]))
  /\ UNCHANGED setupOk

\* lines 629-646: Tesseract.recognize is over; its exception is caught and
\* only logged, and parseDocument is called
OcrDone(r) ==
  /\ runs[r].pc = "ocr"
  /\ LET run == runs[r]
     IN Commit(r, Out([run EXCEPT !.pc = "extracting"],
                      [Shared EXCEPT !.status = "AI Extracting",
                                     !.progress = (100 * (run.i - 1) + 50) \div Len(run.files)]))
  /\ UNCHANGED setupOk

\* lines 591-597: the pages are rendered and parsePacketSegment is called
RenderDone(r) ==
  /\ runs[r].pc = "rendering"
  /\ Commit(r, Out([runs[r] EXCEPT !.pc = "extracting"], Shared))
  /\ UNCHANGED setupOk

\* the status callback handed to parseDocument / parsePacketSegment
ReportStatus(r) ==
  /\ runs[r].pc = "extracting"
  /\ processingStatus # "Extraction status"
  /\ Commit(r, Out(runs[r], [Shared EXCEPT !.status = "Extraction status"]))
  /\ UNCHANGED setupOk

\* parseDocument / parsePacketSegment is over: lines 608-620 or 648-660, and
\* what follows up to the next await or the end of the run
ExtractDone(r) ==
  /\ runs[r].pc = "extracting"
  /\ LET run == runs[r]
         f == run.files[run.i]
         result == f.results[IF IsPdf(f) THEN run.sIdx ELSE 1]
     IN Commit(r,
          IF result = <<>> THEN catchFinally(run, Shared)
          ELSE LET run2 == [run EXCEPT !.allNewRows =
                              run.allNewRows \o MappedRows(result[1], exclusions, refPack)]
               IN IF IsPdf(f) THEN nextSegment(run2, run.sIdx + 1, Shared)
                  ELSE endFile(run2, Shared))
  /\ UNCHANGED setupOk

\* the 1000 ms pacing timeout is over
PaceDone(r) ==
  /\ runs[r].pc = "pacing"
  /\ Commit(r, beginFile(runs[r], Shared))
  /\ UNCHANGED setupOk

\* rows already in the queue when the session starts
QueuedBefore == MappedRows([DocPO EXCEPT !.doc_id = "D2"], {}, TRUE)

InitRun ==
  /\ rows \in {<<>>, QueuedBefore}
  /\ runs = <<>>
  /\ isProcessing = FALSE
  /\ lastError = <<>>
  /\ progress = 0
  /\ processingStatus = ""
  /\ setupOk \in BOOLEAN
  /\ mapped = <<>>
  /\ thresholds = DefaultThresholds
  /\ exports = <<>>
  /\ refPack = TRUE
  /\ exclusions = {}
  /\ pageTexts = <<>>
  /\ triage = <<>>
  /\ segs = <<>>
  /\ step = "ops"
  /\ WizardIdle /\ GatesIdle /\ LineIdle /\ SigIdle

NextRun ==
  \/ \E batch \in FileLists, confirmed \in BOOLEAN : ImportFiles(batch, confirmed)
  \/ \E batch \in FileLists, confirmed \in BOOLEAN : DropFiles(batch, confirmed)
  \/ \E r \in 1..Len(runs) : ReadDone(r)
  \/ \E r \in 1..Len(runs) : OcrDone(r)
  \/ \E r \in 1..Len(runs) : RenderDone(r)
  \/ \E r \in 1..Len(runs) : ReportStatus(r)
  \/ \E r \in 1..Len(runs) : ExtractDone(r)
  \/ \E r \in 1..Len(runs) : PaceDone(r)

SpecRun == InitRun /\ [][NextRun]_vars

\* ------------------------------------------------------------------------
\* The application: processFiles on one file and handleExportJson (App.tsx)
\* ------------------------------------------------------------------------
ParsedLines ==
  {[text |-> x, is_zero_dollar |-> z, conf |-> 95] :
     x \in {{"MFR", "FINISH", "CATEGORY"}, {"MFR"}}, z \in BOOLEAN}

\* a purchase order D1 and a credit memo D2, each of one or more lines
ParsedDocs ==
  {[doc_id |-> h[1], doc_type |-> h[2], lines |-> ls] :
     h \in {<<"D1", "PURCHASE_ORDER">>, <<"D2", "CREDIT_MEMO">>},
     ls \in SeqsUpTo(ParsedLines, MaxRows) \ {<<>>}}

\* the exclusion rules of the policy: none, or one rule on ZERO_DOLLAR,
\* unscoped or scoped to credit memos
ExclusionConfigs ==
  {{},
   {MkRule("ZERO_DOLLAR", "HUMAN_REVIEW", {})},
   {MkRule("ZERO_DOLLAR", "MANUAL_PROCESS", {"CREDIT_MEMO"})},
   {MkRule("ZERO_DOLLAR", "BLOCK", {})}}

\* handleExportJson: auto_stage_min is the policy's gate, review_min is 0.15 lower
PolicyThresholds ==
  [auto_stage_min |-> PolicyGates.auto_process_min,
   review_min |-> PolicyGates.auto_process_min - 15]

Init ==
  /\ rows = <<>>
  /\ mapped = <<>>
  /\ thresholds = PolicyThresholds
  /\ exports = <<>>
  /\ refPack \in BOOLEAN
  /\ exclusions \in ExclusionConfigs
  /\ pageTexts = <<>>
  /\ triage = <<>>
  /\ segs = <<>>
  /\ step = "idle"
  /\ WizardIdle /\ GatesIdle /\ LineIdle /\ SigIdle /\ RunIdle

\* processFiles on one non-PDF file whose extraction returns doc: the rows are
\* mapped and routed, grounded when a reference pack with manufacturers is
\* loaded (refPack), and prepended to the queue
ProcessFile(doc) ==
  /\ Len(rows) + Len(doc.lines) <= MaxRows
  /\ LET mappedRows == geminiResultToPOLineRows(doc, exclusions)
         newRows == IF refPack THEN enrichAndValidate(mappedRows) ELSE mappedRows
     IN rows' = newRows \o rows
  /\ step' = "queued"
  /\ UNCHANGED <<mapped, thresholds, exports, refPack, exclusions, pageTexts, triage, segs>>
  /\ UNCHANGED <<calibVars, gateVars, lineVars, sigVars, runVars>>

handleExportJson ==
  /\ Len(rows) # 0
  /\ exports' = buildPOExportsV1(rows, thresholds, "PRODUCTION")
  /\ step' = "exported"
  /\ UNCHANGED <<rows, mapped, thresholds, refPack, exclusions, pageTexts, triage, segs>>
  /\ UNCHANGED <<calibVars, gateVars, lineVars, sigVars, runVars>>

Next ==
  \/ \E doc \in ParsedDocs : ProcessFile(doc)
  \/ handleExportJson

Spec == Init /\ [][Next]_vars

\* ------------------------------------------------------------------------
\* Properties of enrichAndValidate (SpecEnrich)
\* ------------------------------------------------------------------------
Enriched == step = "enriched"

C7_Score(text) ==
  (IF "MFR" \in text THEN 40 ELSE 0) + (IF "FINISH" \in text THEN 20 ELSE 0)
  + (IF "CATEGORY" \in text THEN 20 ELSE 0)

C7_Ready(i) == Len(Violations(mapped[i])) = 0 /\ rows[i].confidence_score >= 80

\* C7: for a non-EMAIL_COVER row, confidence_score = min(score + 0.2, 1);
\* the row is ready iff it has zero violations and confidence >= 0.8; the lane
\* is AUTO if ready, BLOCK if not ready with more than 2 violations, ASSIST if
\* not ready with at most 2; sage_import_ready equals ready.
C7_ScoreReadyLane ==
  Enriched =>
    \A i \in 1..Len(mapped) :
      mapped[i].doc_type # "EMAIL_COVER" =>
        /\ rows[i].confidence_score = Min(C7_Score(mapped[i].text) + 20, 100)
        /\ rows[i].match_score = rows[i].confidence_score
        /\ rows[i].sage_import_ready = C7_Ready(i)
        /\ C7_Ready(i) => rows[i].automation_lane = "AUTO"
        /\ (~C7_Ready(i) /\ Len(Violations(mapped[i])) > 2) => rows[i].automation_lane = "BLOCK"
        /\ (~C7_Ready(i) /\ Len(Violations(mapped[i])) <= 2) => rows[i].automation_lane = "ASSIST"

\* a row grounded on manufacturer and finish only (confidence exactly 0.8) is
\* ready, next to a row that is not ready
C7_Witness ==
  /\ Enriched
  /\ \E i, j \in 1..Len(mapped) :
       /\ mapped[i].doc_type = "PURCHASE_ORDER"
       /\ mapped[i].text = {"MFR", "FINISH"}
       /\ rows[i].automation_lane = "AUTO"
       /\ rows[i].confidence_score = 80
       /\ mapped[j].doc_type # "EMAIL_COVER"
       /\ rows[j].automation_lane = "ASSIST"

\* the grounding checks of a row that failed
C8_FailedChecks(text) == Cardinality({"MFR", "FINISH", "CATEGORY"} \ text)

\* C8: every failed grounding check (manufacturer, finish, category) appends
\* its own violation, so the number of violations of a row equals the number
\* of grounding checks that failed; no row is removed.
C8_ViolationPerFailedCheck ==
  Enriched =>
    /\ Len(rows) = Len(mapped)
    /\ \A i \in 1..Len(mapped) :
         mapped[i].doc_type # "EMAIL_COVER" =>
           /\ Len(Violations(mapped[i])) = C8_FailedChecks(mapped[i].text)
           /\ ~rows[i].sage_import_ready =>
                Len(rows[i].fields_requiring_review) = C8_FailedChecks(mapped[i].text)

\* ------------------------------------------------------------------------
\* Properties of buildPOExportsV1 (SpecExport)
\* ------------------------------------------------------------------------
Exported == step = "exported"

\* the positions of the rows of a document
RowsOfDoc(docId) == {i \in 1..Len(rows) : rows[i].doc_id = docId}

ExportsOfDoc(docId) == {k \in 1..Len(exports) : exports[k].document_id = docId}

\* confidence_score present and below t
Below(r, t) == r.confidence_score # NoConf /\ r.confidence_score < t

\* C3: for every document, the exported decision is AUTO_STAGE only if every
\* row of the document is AUTO; a BLOCK row makes it HUMAN_REQUIRED; with no
\* BLOCK row and not all rows AUTO the lane-based decision is REVIEW.
C3_DocumentDecision ==
  Exported =>
    \A d \in DocIds :
      /\ Cardinality(ExportsOfDoc(d)) = (IF RowsOfDoc(d) = {} THEN 0 ELSE 1)
      /\ \A k \in ExportsOfDoc(d) :
           /\ exports[k].decision = "AUTO_STAGE" =>
                \A i \in RowsOfDoc(d) : rows[i].automation_lane = "AUTO"
           /\ (\E i \in RowsOfDoc(d) : rows[i].automation_lane = "BLOCK") =>
                exports[k].decision = "HUMAN_REQUIRED"
           /\ ( /\ \A i \in RowsOfDoc(d) : rows[i].automation_lane # "BLOCK"
                /\ \E i \in RowsOfDoc(d) : rows[i].automation_lane # "AUTO" ) =>
                exports[k].lane_decision = "REVIEW"

\* a document with an AUTO row next to an ASSIST row has been exported
C3_Witness ==
  /\ Exported
  /\ \E k \in 1..Len(exports) :
       /\ exports[k].lane_decision = "REVIEW"
       /\ \E i, j \in RowsOfDoc(exports[k].document_id) :
            rows[i].automation_lane = "AUTO" /\ rows[j].automation_lane = "ASSIST"

DecisionRank(d) ==
  CASE d = "AUTO_STAGE" -> 0 [] d = "REVIEW" -> 1 [] d = "HUMAN_REQUIRED" -> 2

\* C4: the threshold checks only make a decision stricter: the final decision
\* is never less strict than the lane-based one, for any thresholds.
C4_MonotonicDegradation ==
  Exported =>
    \A k \in 1..Len(exports) :
      DecisionRank(exports[k].decision) >= DecisionRank(exports[k].lane_decision)

\* a document that is HUMAN_REQUIRED by its lanes, has a row below
\* auto_stage_min and none below review_min
C4_Witness ==
  /\ Exported
  /\ \E k \in 1..Len(exports) :
       /\ exports[k].lane_decision = "HUMAN_REQUIRED"
       /\ \E i \in RowsOfDoc(exports[k].document_id) : Below(rows[i], thresholds.auto_stage_min)
       /\ \A i \in RowsOfDoc(exports[k].document_id) : ~Below(rows[i], thresholds.review_min)

\* C5: a document whose rows are all AUTO and that has a row below
\* auto_stage_min is never AUTO_STAGE: it is REVIEW when no row is below
\* review_min; and any document with a row below review_min is HUMAN_REQUIRED.
C5_DegradeBelowThresholds ==
  Exported =>
    \A k \in 1..Len(exports) :
      LET R == RowsOfDoc(exports[k].document_id)
          belowAuto == \E i \in R : Below(rows[i], thresholds.auto_stage_min)
          belowReview == \E i \in R : Below(rows[i], thresholds.review_min)
      IN /\ ((\A i \in R : rows[i].automation_lane = "AUTO") /\ belowAuto) =>
              /\ exports[k].decision # "AUTO_STAGE"
              /\ ~belowReview => exports[k].decision = "REVIEW"
         /\ belowReview => exports[k].decision = "HUMAN_REQUIRED"

\* an all-AUTO document of two rows, one of them below auto_stage_min and none
\* below review_min
C5_Witness ==
  /\ Exported
  /\ \E k \in 1..Len(exports) :
       LET R == RowsOfDoc(exports[k].document_id)
       IN /\ Cardinality(R) = 2
          /\ \A i \in R : rows[i].automation_lane = "AUTO"
          /\ \E i \in R : Below(rows[i], thresholds.auto_stage_min)
          /\ \E i \in R : ~Below(rows[i], thresholds.auto_stage_min)
          /\ \A i \in R : ~Below(rows[i], thresholds.review_min)
          /\ exports[k].decision = "REVIEW"

\* C6: routing.reason_codes is never empty, and PARSING_ERROR is emitted
\* exactly when no other reason code was derived.
C6_ReasonCodesNeverEmpty ==
  Exported =>
    \A k \in 1..Len(exports) :
      /\ exports[k].reason_codes # {}
      /\ ("PARSING_ERROR" \in exports[k].reason_codes) <=>
           (exports[k].reason_codes \ {"PARSING_ERROR"} = {})

\* a document for which nothing is derived: review_min above auto_stage_min,
\* a row between the two, no flag, no BLOCK
C6_Witness ==
  /\ Exported
  /\ \E k \in 1..Len(exports) : exports[k].reason_codes = {"PARSING_ERROR"}

\* ------------------------------------------------------------------------
\* Properties of buildSegments (SpecSeg)
\* ------------------------------------------------------------------------
Segmented == step = "segmented"

\* the page indexes a..b in order
PageRange(a, b) == [k \in 1..(b - a + 1) |-> a + k - 1]

\* C9: the segments of a triage list of pages 0..n-1 partition the pages: each
\* segment's pages are exactly pageStart..pageEnd, each next segment starts at
\* the previous pageEnd + 1, the first starts at 0 and the last ends at n-1;
\* an empty triage list gives no segments.
C9_SegmentsPartitionPages ==
  Segmented =>
    /\ \A i \in 1..Len(triage) : triage[i].pageIndex = i - 1
    /\ (triage = <<>>) => (segs = <<>>)
    /\ (triage # <<>>) =>
         /\ segs # <<>>
         /\ segs[1].pageStart = 0
         /\ segs[Len(segs)].pageEnd = Len(triage) - 1
    /\ \A k \in 1..Len(segs) :
         /\ segs[k].pageStart <= segs[k].pageEnd
         /\ segs[k].pages = PageRange(segs[k].pageStart, segs[k].pageEnd)
         /\ k < Len(segs) => segs[k + 1].pageStart = segs[k].pageEnd + 1

\* a packet of MaxPages pages cut into several segments, one of them of more
\* than one page
C9_Witness ==
  /\ Segmented
  /\ Len(triage) = MaxPages
  /\ Len(segs) >= 3
  /\ \E k \in 1..Len(segs) : segs[k].pageEnd > segs[k].pageStart

PO == "PURCHASE_ORDER"

TriageLabels == [i \in 1..Len(triage) |-> triage[i].label]

\* C10: every UNKNOWN page is a segment of its own, all pages of a segment
\* carry the segment's label, and two neighbouring segments never carry the same
\* non-UNKNOWN label (a maximal run of one known label is one segment); labels
\* [PO, PO, UNKNOWN, PO, PO] give the 3 segments {0,1}=PO, {2}=UNKNOWN, {3,4}=PO.
C10_UnknownNeverMerged ==
  Segmented =>
    /\ \A k \in 1..Len(segs) :
         /\ \A j \in 1..Len(segs[k].pages) :
              triage[segs[k].pages[j] + 1].label = segs[k].label
         /\ segs[k].label = "UNKNOWN" => Len(segs[k].pages) = 1
         /\ (k < Len(segs) /\ segs[k].label # "UNKNOWN") =>
              segs[k + 1].label # segs[k].label
    /\ \A i \in 1..Len(triage) :
         triage[i].label = "UNKNOWN" =>
           \E k \in 1..Len(segs) : segs[k].pages = <<i - 1>>
    /\ (TriageLabels = <<PO, PO, "UNKNOWN", PO, PO>>) =>
         /\ Len(segs) = 3
         /\ segs[1].pages = <<0, 1>> /\ segs[1].label = PO
         /\ segs[2].pages = <<2>> /\ segs[2].label = "UNKNOWN"
         /\ segs[3].pages = <<3, 4>> /\ segs[3].label = PO

\* the packet [PO, PO, UNKNOWN, PO, PO] has been segmented
C10_Witness ==
  /\ Segmented
  /\ TriageLabels = <<PO, PO, "UNKNOWN", PO, PO>>

\* ------------------------------------------------------------------------
\* Properties of the per-file pipeline (Spec)
\* ------------------------------------------------------------------------
TriggerMatches(r) ==
  \E rule \in exclusions :
    /\ rule.reason_code \in r.edge_case_flags
    /\ rule.scope_doc_type = {} \/ r.doc_type \in rule.scope_doc_type

\* C2: when an exclusion rule's trigger matches a row (reason code present,
\* document type in the rule's scope when scoped), the rule's action takes
\* precedence over the computed lane: after applyPolicyRouting,
\* enrichAndValidate and buildPOExportsV1 the row is not AUTO and its document
\* is not AUTO_STAGE.
C2_ExclusionTakesPrecedence ==
  \A i \in 1..Len(rows) :
    TriggerMatches(rows[i]) =>
      /\ rows[i].automation_lane # "AUTO"
      /\ step = "exported" =>
           \A k \in 1..Len(exports) :
             exports[k].document_id = rows[i].doc_id => exports[k].decision # "AUTO_STAGE"

InSeq(x, sq) == \E k \in 1..Len(sq) : sq[k] = x

\* C26: after the per-file pipeline (geminiResultToPOLineRows, then
\* enrichAndValidate when a reference pack with manufacturers is loaded) every
\* CREDIT_MEMO row carries the CREDIT_MEMO flag, has doc_type among its
\* fields_requiring_review and is not in lane AUTO.
C26_CreditMemoForcedToReview ==
  \A i \in 1..Len(rows) :
    rows[i].doc_type = "CREDIT_MEMO" =>
      /\ "CREDIT_MEMO" \in rows[i].edge_case_flags
      /\ InSeq("doc_type", rows[i].fields_requiring_review)
      /\ rows[i].automation_lane # "AUTO"

\* ------------------------------------------------------------------------
\* Properties of scorePage (SpecScore)
\* ------------------------------------------------------------------------
Triaged == step = "triaged"

IsEmail(text) == "FROM:" \in text.has /\ "SUBJECT:" \in text.has

BothHeaders(text) ==
  text.len >= MinTextLen /\ "CREDIT MEMO" \in text.has /\ "PURCHASE ORDER" \in text.has

\* the rules in priority order, as <<reason, label, score>>
RuleOrder ==
  <<<<"EMAIL_HEADERS", "EMAIL_COVER", 90>>,
    <<"CREDIT_MEMO_HEADER", "CREDIT_MEMO", 95>>,
    <<"PURCHASE_ORDER_HEADER", "PURCHASE_ORDER", 95>>,
    <<"SALES_ORDER_HEADER", "SALES_ORDER", 90>>,
    <<"INVOICE_HEADER", "INVOICE", 90>>,
    <<"PICKING_SHEET_HEADER", "PICKING_SHEET", 90>>,
    <<"TOTALS_PLUS_ADDRESS_BLOCK", "INVOICE", 60>>,
    <<"NO_STRONG_HEADER_MATCH", "UNKNOWN", 20>>>>

RuleFires(k, text) ==
  CASE k = 1 -> IsEmail(text)
    [] k = 2 -> "CREDIT MEMO" \in text.has
    [] k = 3 -> text.has \cap {"PURCHASE ORDER", "HUNTINGTON HARDWARE"} # {}
    [] k = 4 -> "SALES ORDER" \in text.has
    [] k = 5 -> "INVOICE" \in text.has /\ "INVOICE TO" \notin text.has
    [] k = 6 -> "PICKING SHEET" \in text.has
    [] k = 7 -> text.has \cap {"SUBTOTAL", "TOTAL", "AMOUNT"} # {}
                  /\ text.has \cap {"SHIP TO", "BILL TO", "SOLD TO"} # {}
    [] OTHER -> TRUE

\* C11 as stated: a page of 20 or more characters with both a CREDIT MEMO and a
\* PURCHASE ORDER header is CREDIT_MEMO with score 0.95 whatever else it holds
C11_CreditMemoWhateverElse ==
  Triaged =>
    \A i \in 1..Len(triage) :
      BothHeaders(pageTexts[i]) =>
        triage[i].label = "CREDIT_MEMO" /\ triage[i].score = 95

\* C11 amended: the rules are tried in the fixed order and the first that fires
\* gives label, score and reason; a page of 20 or more characters with both a
\* CREDIT MEMO and a PURCHASE ORDER header is CREDIT_MEMO with score 0.95
\* unless it also carries the FROM: and SUBJECT: headers, which make it
\* EMAIL_COVER with score 0.9; a page under 20 characters is UNKNOWN, score 0.1
C11_FirstMatchWins ==
  Triaged =>
    \A i \in 1..Len(triage) :
      LET text == pageTexts[i]
          t == triage[i]
          first == CHOOSE k \in 1..Len(RuleOrder) :
                     RuleFires(k, text) /\ \A j \in 1..(k - 1) : ~RuleFires(j, text)
      IN /\ text.len < MinTextLen => t.label = "UNKNOWN" /\ t.score = 10
         /\ text.len >= MinTextLen =>
              t.reasons = <<RuleOrder[first][1]>> /\ t.label = RuleOrder[first][2]
                /\ t.score = RuleOrder[first][3]
         /\ BothHeaders(text) /\ ~IsEmail(text) => t.label = "CREDIT_MEMO" /\ t.score = 95
         /\ BothHeaders(text) /\ IsEmail(text) => t.label = "EMAIL_COVER" /\ t.score = 90

\* a page with both headers and more has been scored CREDIT_MEMO
C11_Witness ==
  /\ Triaged
  /\ \E i \in 1..Len(triage) :
       /\ BothHeaders(pageTexts[i]) /\ "SALES ORDER" \in pageTexts[i].has
       /\ triage[i].label = "CREDIT_MEMO"

\* ------------------------------------------------------------------------
\* Properties of suggestGates (SpecGates)
\* ------------------------------------------------------------------------
Suggested == step = "suggested"

\* the thresholds with a non-empty automatic bucket whose error rate is
\* within maxError
Qualifying ==
  {coverage[k].threshold : k \in
     {j \in 1..Len(coverage) :
        /\ coverage[j].auto_rate.num > 0
        /\ coverage[j].expected_error_rate.num * 10000
             <= maxError * coverage[j].expected_error_rate.den}}

\* C12: auto_process_min is the lowest qualifying threshold, 0.95 when none
\* qualifies; review_min is max(0, min(auto_process_min - 0.15, 0.85));
\* block_below is 0.50; when exactly 0.9 and 0.95 qualify at maxError 0.02
\* the gates are 0.9 / 0.75 / 0.50
C12_SuggestedGates ==
  Suggested =>
    LET g == gates[1]
        lowest == IF Qualifying = {} THEN 9500
                  ELSE CHOOSE t \in Qualifying : \A u \in Qualifying : t <= u
    IN /\ g.auto_process_min * 100 = lowest
       /\ g.review_min * 100 = Max(0, Min(lowest - 1500, 8500))
       /\ g.block_below = 50
       /\ (maxError = 200 /\ Qualifying = {9000, 9500}) =>
            g = [auto_process_min |-> 90, review_min |-> 75, block_below |-> 50]

\* thresholds 0.9 and 0.95 alone qualify at maxError 0.02 and the gates are
\* 0.9 / 0.75 / 0.50
C12_Witness ==
  /\ Suggested
  /\ maxError = 200
  /\ Qualifying = {9000, 9500}
  /\ gates[1] = [auto_process_min |-> 90, review_min |-> 75, block_below |-> 50]

\* C14: whenever auto_process_min is at least 0.65 the gates are ordered
\* block_below = 0.50 <= review_min < auto_process_min, with review_min
\* exactly 0.15 below auto_process_min
C14_GatesOrdered ==
  Suggested =>
    LET g == gates[1]
    IN g.auto_process_min >= 65 =>
         /\ g.block_below = 50
         /\ g.block_below <= g.review_min
         /\ g.review_min < g.auto_process_min
         /\ g.review_min = g.auto_process_min - 15

\* the automatic gate was suggested at 0.7, the review gate at 0.55
C14_Witness ==
  /\ Suggested
  /\ gates[1].auto_process_min = 70
  /\ gates[1].review_min = 55

\* ------------------------------------------------------------------------
\* Properties of computeCalibration (SpecCalibration)
\* ------------------------------------------------------------------------
Calibrated == step = "calibrated"

\* a <= b for ratios with positive denominators
RatLeq(a, b) == a.num * b.den <= b.num * a.den

\* C15: coverage_by_threshold lists the thresholds 0.5, 0.6, 0.7, 0.75, 0.8,
\* 0.85, 0.9, 0.92, 0.95, 0.98 in this order with a non-increasing auto_rate,
\* and a threshold that no row reaches has auto_rate 0 and
\* expected_error_rate 0
C15_CoverageMonotone ==
  Calibrated =>
    LET c == calibrationData[1]
        cov == c.coverage_by_threshold
    IN /\ [k \in 1..Len(cov) |-> cov[k].threshold]
            = <<5000, 6000, 7000, 7500, 8000, 8500, 9000, 9200, 9500, 9800>>
       /\ \A k \in 1..(Len(cov) - 1) : RatLeq(cov[k + 1].auto_rate, cov[k].auto_rate)
       /\ \A k \in 1..Len(cov) :
            (\A i \in 1..c.n_rows : c.normalized[i] < cov[k].threshold) =>
              cov[k].auto_rate.num = 0 /\ cov[k].expected_error_rate.num = 0

\* a table whose rows reach 0.9 but not 0.92: the auto_rate falls from a
\* positive value to 0
C15_Witness ==
  /\ Calibrated
  /\ calibrationData[1].coverage_by_threshold[7].auto_rate.num > 0
  /\ calibrationData[1].coverage_by_threshold[8].auto_rate.num = 0
  /\ calibrationData[1].coverage_by_threshold[1].auto_rate.num
       > calibrationData[1].coverage_by_threshold[7].auto_rate.num

\* the confidence v lies in bin k of n: [ (k-1)/n, k/n ), the last bin
\* including 1.0
LiesInBin(v, k, n) ==
  /\ v * n >= (k - 1) * 10000
  /\ v * n < k * 10000 \/ (k = n /\ v = 10000)

\* C16: there are exactly bins reliability bins of equal width that partition
\* [0, 1], half-open except that the last includes 1.0; every normalized
\* confidence falls in exactly one bin, the bin counts sum to n_rows, and
\* 0 <= ECE <= 1
C16_BinsPartition ==
  Calibrated =>
    LET c == calibrationData[1]
        rb == c.reliability_bins
        counts == [k \in 1..Len(rb) |-> rb[k].count]
    IN /\ Len(rb) = nBins
       /\ \A k \in 1..nBins :
            rb[k].bin_min = Rat(k - 1, nBins) /\ rb[k].bin_max = Rat(k, nBins)
       /\ \A i \in 1..c.n_rows :
            Cardinality({k \in 1..nBins : LiesInBin(c.normalized[i], k, nBins)}) = 1
       /\ \A k \in 1..nBins :
            rb[k].count = Cardinality({i \in 1..c.n_rows : LiesInBin(c.normalized[i], k, nBins)})
       /\ SumOver(counts, 1..nBins) = c.n_rows
       /\ c.n_rows = Len(truthRows)
       /\ 0 <= c.ece.num /\ c.ece.num <= c.ece.den

\* ten bins, one confidence on the inner boundary 0.9 and one at 1.0, and a
\* positive ECE
C16_Witness ==
  /\ Calibrated
  /\ nBins = 10
  /\ \E i, j \in 1..calibrationData[1].n_rows :
       calibrationData[1].normalized[i] = 9000 /\ calibrationData[1].normalized[j] = 10000
  /\ calibrationData[1].reliability_bins[10].count >= 2
  /\ calibrationData[1].ece.num > 0

\* clamp of a value in ten-thousandths to [0, 1]
Clamp01(v) == IF v < 0 THEN 0 ELSE IF v > 10000 THEN 10000 ELSE v

\* C17: the scale is 0_1 when every predicted_confidence is at most 1.5 and
\* 0_100 as soon as one is above 1.5; on the 0_100 scale every value is
\* divided by 100; every normalized value is clamped to [0, 1]
C17_ScaleAndClamp ==
  Calibrated =>
    LET c == calibrationData[1]
        allLow == \A i \in 1..Len(truthRows) : truthRows[i].predicted_confidence <= 150
    IN /\ allLow => c.confidence_scale_detected = "0_1"
       /\ ~allLow => c.confidence_scale_detected = "0_100"
       /\ \A i \in 1..Len(truthRows) :
            /\ c.confidence_scale_detected = "0_100" =>
                 c.normalized[i] = Clamp01(truthRows[i].predicted_confidence)
            /\ c.confidence_scale_detected = "0_1" =>
                 c.normalized[i] = Clamp01(truthRows[i].predicted_confidence * 100)
            /\ 0 <= c.normalized[i] /\ c.normalized[i] <= 10000

\* one value of 1.6 puts the table on the 0_100 scale: 0.55 becomes 0.0055
\* and 120 is clamped to 1.0
C17_Witness ==
  /\ Calibrated
  /\ calibrationData[1].confidence_scale_detected = "0_100"
  /\ \E i, j, k \in 1..Len(truthRows) :
       /\ truthRows[i].predicted_confidence = 160
       /\ truthRows[j].predicted_confidence = 55 /\ calibrationData[1].normalized[j] = 55
       /\ truthRows[k].predicted_confidence = 12000 /\ calibrationData[1].normalized[k] = 10000

\* ------------------------------------------------------------------------
\* Properties of the setup wizard (SpecWizard)
\* ------------------------------------------------------------------------
Analysed == step = "analysed"

\* the calibration shown reports accuracy 0.95 and, at threshold 0.9,
\* auto_rate 0.90 with expected_error_rate 0
ExampleStatistics ==
  LET c == calibrationData[1]
      at90 == c.coverage_by_threshold[7]
  IN /\ c.n_rows = 100
     /\ c.accuracy.num * 100 = 95 * c.accuracy.den
     /\ at90.threshold = 9000
     /\ at90.auto_rate.num * 100 = 90 * at90.auto_rate.den
     /\ at90.expected_error_rate.num = 0

\* C13 as stated: for the table of 100 rows (90 at confidence 0.9 or more, all
\* correct; 10 at 0.6, 5 of them correct) the accuracy is 0.95, the coverage
\* at 0.9 is auto_rate 0.90 with expected_error_rate 0, and suggestGates with
\* maxError 0.02 selects auto_process_min 0.9
C13_ExampleSelects90 ==
  (Analysed /\ upload = Example100) => ExampleStatistics /\ autoMin = 90

\* C13 amended: same table and statistics, but the thresholds 0.7, 0.75, 0.8
\* and 0.85 hold the same 90 correct rows as 0.9, so the lowest qualifying
\* threshold is 0.7: auto_process_min 0.7, review_min 0.55, block_below 0.50
C13_ExampleSelects70 ==
  (Analysed /\ upload = Example100) =>
    /\ ExampleStatistics
    /\ \A k \in 3..7 :
         calibrationData[1].coverage_by_threshold[k].auto_rate = Rat(90, 100)
           /\ calibrationData[1].coverage_by_threshold[k].expected_error_rate.num = 0
    /\ \A k \in 1..2 :
         calibrationData[1].coverage_by_threshold[k].expected_error_rate = Rat(5, 100)
    /\ autoMin = 70 /\ reviewMin = 55 /\ blockBelow = 50

\* the 100-row table has been analysed
C13_Witness ==
  /\ Analysed
  /\ upload = Example100
  /\ Len(truthRows) = 100
  /\ autoMin = 70

\* the rows of the upload that have a finite predicted confidence and a
\* finite correctness
Usable == {i \in 1..Len(upload) : upload[i].predicted.finite /\ upload[i].correct.finite}

\* C18: the analysis of an upload never fails in coerceTruthTable, which keeps
\* exactly the usable rows in their order; computeCalibration fails exactly on
\* the empty table; when every row is dropped the calibration data and the
\* gates autoMin, reviewMin, blockBelow keep their previous values; in every
\* case isCalibrating ends false
C18_EmptyUploadKeepsState ==
  [][step = "reading" =>
       /\ Len(truthRows') = Cardinality(Usable)
       /\ \A i \in Usable :
            LET k == Cardinality({j \in Usable : j <= i})
            IN truthRows'[k] = [predicted_confidence |-> upload[i].predicted.val,
                                correct |-> upload[i].correct.val]
       /\ (step' = "failed") = (Usable = {})
       /\ (step' = "analysed") = (Usable # {})
       /\ Usable = {} =>
            /\ calibrationData' = calibrationData
            /\ autoMin' = autoMin /\ reviewMin' = reviewMin /\ blockBelow' = blockBelow
       /\ Usable # {} => calibrationData' # <<>> /\ calibrationData'[1].n_rows = Len(truthRows')
       /\ isCalibrating /\ ~isCalibrating']_vars

\* an upload of rows that were all dropped has failed and the wizard still
\* shows the earlier calibration and the hand-edited gates
C18_Witness ==
  /\ step = "failed"
  /\ Len(upload) > 0
  /\ truthRows = <<>>
  /\ calibrationData # <<>>
  /\ autoMin = 80 /\ reviewMin = 60 /\ blockBelow = 40
  /\ ~isCalibrating

\* ------------------------------------------------------------------------
\* Properties of computeFieldConfidence (SpecField)
\* ------------------------------------------------------------------------
Scored == step = "scored"

HasFlag(flag) == flag \in lineRow.edge_case_flags

PriceExpected == lineRow.doc_type \notin {"PICKING_SHEET", "EMAIL_COVER"}

\* the clamped base confidence of the row
ClampedBase ==
  IF lineRow.confidence_score = NoConf \/ lineRow.confidence_score < 0 THEN 0
  ELSE IF lineRow.confidence_score > 100 THEN 100
  ELSE lineRow.confidence_score

\* the penalty of one field: its own missing-value weight and the edge-case
\* weights aimed at it
PenaltyOf(field) ==
  CASE field = "customer_item_no" ->
         (IF lineRow.customer_item_no THEN 0 ELSE 25) + (IF HasFlag("CUSTOM_DIMENSION") THEN 5 ELSE 0)
    [] field = "qty" -> IF lineRow.qty THEN 0 ELSE 25
    [] field = "unit_price" ->
         IF PriceExpected
           THEN (IF lineRow.unit_price THEN 0 ELSE 15) + (IF HasFlag("ZERO_DOLLAR") THEN 20 ELSE 0)
           ELSE 0
    [] field = "extended_price" ->
         IF PriceExpected
           THEN (IF lineRow.extended_price THEN 0 ELSE 10) + (IF HasFlag("ZERO_DOLLAR") THEN 20 ELSE 0)
           ELSE 0
    [] field = "uom" -> IF lineRow.uom THEN 0 ELSE 10
    [] field = "customer_item_desc_raw" ->
         (IF lineRow.customer_item_desc_raw THEN 0 ELSE 10)
           + (IF HasFlag("SPECIAL_LAYOUT") THEN 15 ELSE 0)
           + (IF HasFlag("CUSTOM_DIMENSION") THEN 10 ELSE 0)
           + (IF HasFlag("RGA_REFERENCE") THEN 15 ELSE 0)

\* C19: the result has exactly the six fields; each value is the clamped base
\* minus the penalty of that field alone, clamped to [0, 1], so it lies in
\* [0, 1] and never exceeds the clamped base; on PICKING_SHEET and
\* EMAIL_COVER rows unit_price and extended_price equal the clamped base
C19_FieldConfidence ==
  Scored =>
    /\ DOMAIN fieldConf = {"customer_item_no", "qty", "unit_price", "extended_price", "uom",
                           "customer_item_desc_raw"}
    /\ \A field \in DOMAIN fieldConf :
         /\ fieldConf[field] = Max(0, ClampedBase - PenaltyOf(field))
         /\ 0 <= fieldConf[field] /\ fieldConf[field] <= 100
         /\ fieldConf[field] <= ClampedBase
    /\ ~PriceExpected =>
         fieldConf["unit_price"] = ClampedBase /\ fieldConf["extended_price"] = ClampedBase

\* a picking sheet row with no prices and the ZERO_DOLLAR flag keeps both
\* price fields at the base 0.95 while its missing quantity costs 0.25
C19_Witness ==
  /\ Scored
  /\ lineRow.doc_type = "PICKING_SHEET"
  /\ ~lineRow.unit_price /\ ~lineRow.extended_price /\ HasFlag("ZERO_DOLLAR")
  /\ fieldConf["unit_price"] = 95 /\ fieldConf["extended_price"] = 95
  /\ fieldConf["qty"] = 70

\* ------------------------------------------------------------------------
\* Properties of deriveItemClass (SpecItemClass)
\* ------------------------------------------------------------------------
Classified == step = "classified"

HardSignal ==
  lineRow.flags \cap {"SPECIAL_LAYOUT", "CUSTOM_DIMENSION", "RGA_REFERENCE"} # {}
    \/ lineRow.isZeroDollar

ConfiguredSignal == lineRow.flags \cap {"WIRING_SPEC", "POWER_TRANSFER"} # {}

\* C20: the class is CUSTOM whenever SPECIAL_LAYOUT, CUSTOM_DIMENSION or
\* RGA_REFERENCE is flagged or the line is zero-dollar, whatever WIRING_SPEC or
\* POWER_TRANSFER flags are present; otherwise CONFIGURED when WIRING_SPEC or
\* POWER_TRANSFER is flagged; otherwise the base class
C20_TwoTierOverride ==
  Classified =>
    /\ HardSignal => itemClass = "CUSTOM"
    /\ ~HardSignal /\ ConfiguredSignal => itemClass = "CONFIGURED"
    /\ ~HardSignal /\ ~ConfiguredSignal => itemClass = lineRow.base

\* a zero-dollar line with both configured flags is CUSTOM
C20_Witness ==
  /\ Classified
  /\ lineRow.isZeroDollar
  /\ {"WIRING_SPEC", "POWER_TRANSFER"} \subseteq lineRow.flags
  /\ lineRow.flags \cap {"SPECIAL_LAYOUT", "CUSTOM_DIMENSION", "RGA_REFERENCE"} = {}
  /\ lineRow.base = "CATALOG"
  /\ itemClass = "CUSTOM"

\* ------------------------------------------------------------------------
\* Properties of classifyZeroDollar (SpecZeroDollar)
\* ------------------------------------------------------------------------
ZeroChecked == step = "zero-checked"

\* C21: classifyZeroDollar is true exactly when qty is a present number other
\* than 0 and unitPrice or extPrice is exactly 0; (5, 0, 0) is true,
\* (0, 0, anything) is false, (5, 10, 50) is false
C21_ZeroDollarExactly ==
  ZeroChecked =>
    LET q == lineRow.qty
        u == lineRow.unit_price
        e == lineRow.extended_price
    IN /\ zeroDollar = (q \notin {<<>>, <<0>>} /\ (u = <<0>> \/ e = <<0>>))
       /\ (q = <<5>> /\ u = <<0>> /\ e = <<0>>) => zeroDollar
       /\ (q = <<0>> /\ u = <<0>>) => ~zeroDollar
       /\ (q = <<5>> /\ u = <<10>> /\ e = <<50>>) => ~zeroDollar
       /\ q \in {<<>>, <<0>>} => ~zeroDollar
       /\ (u # <<0>> /\ e # <<0>>) => ~zeroDollar

\* quantity 5 with a missing unit price and an extended price of 0 is
\* zero-dollar
C21_Witness ==
  /\ ZeroChecked
  /\ lineRow.qty = <<5>> /\ lineRow.unit_price = <<>> /\ lineRow.extended_price = <<0>>
  /\ zeroDollar

\* ------------------------------------------------------------------------
\* Properties of buildSignature (SpecSignature) and diffSignatures (SpecDiff)
\* ------------------------------------------------------------------------
\* C22: buildSignature does not depend on the input order of the documents:
\* the signature of a reordering of the documents has the same docs sequence,
\* doc_id and customer_order_no of each position included.
C22_OrderIndependent ==
  step = "compared" => currentSig[1].docs = buildSignature("packet.pdf", "hash-1", docsFirst).docs

\* the two signatures differ in page_start / page_end of some documents and
\* in nothing else
PagesOnlyDiffer(b, c) ==
  /\ b.doc_count = c.doc_count
  /\ Len(b.docs) = Len(c.docs)
  /\ \A i \in 1..Len(b.docs) :
       /\ b.docs[i].doc_id = c.docs[i].doc_id
       /\ b.docs[i].doc_type = c.docs[i].doc_type
       /\ b.docs[i].source_pages_count = c.docs[i].source_pages_count
       /\ b.docs[i].line_count = c.docs[i].line_count
       /\ b.docs[i].customer_order_no = c.docs[i].customer_order_no
  /\ \E i \in 1..Len(b.docs) :
       b.docs[i].page_start # c.docs[i].page_start \/ b.docs[i].page_end # c.docs[i].page_end

Compared == step = "compared" /\ baselineSig # <<>>

\* C23 as stated: every pair of signatures that differs only in page ranges
\* gives no error, at least one warning and ok = TRUE; ok is TRUE exactly
\* when the error list is empty.
C23_PageChangesNeverFail ==
  Compared =>
    /\ regressionDiff[1].ok <=> regressionDiff[1].errors = <<>>
    /\ PagesOnlyDiffer(baselineSig[1], currentSig[1]) =>
         /\ regressionDiff[1].errors = <<>>
         /\ Len(regressionDiff[1].warnings) >= 1
         /\ regressionDiff[1].ok

AllHaveDocId(sig) == \A i \in 1..Len(sig.docs) : sig.docs[i].doc_id # ""

\* C23 amended: every pair of signatures that differs only in page ranges
\* and whose current documents all carry a document id gives no error, at
\* least one warning and ok = TRUE; ok is TRUE exactly when the error list
\* is empty, and a pair that differs only in page ranges or line counts of
\* documents that carry an id is ok.
C23_PageChangesNeverFailWithIds ==
  Compared =>
    /\ regressionDiff[1].ok <=> regressionDiff[1].errors = <<>>
    /\ (PagesOnlyDiffer(baselineSig[1], currentSig[1]) /\ AllHaveDocId(currentSig[1])) =>
         /\ regressionDiff[1].errors = <<>>
         /\ Len(regressionDiff[1].warnings) >= 1
         /\ regressionDiff[1].ok

C23_Witness ==
  /\ Compared
  /\ PagesOnlyDiffer(baselineSig[1], currentSig[1])
  /\ AllHaveDocId(currentSig[1])
  /\ Len(currentSig[1].docs) >= 1
  /\ regressionDiff[1].ok

\* ------------------------------------------------------------------------
\* Properties of processFiles (SpecRun)
\* ------------------------------------------------------------------------
\* C24: under every sequence of Import and drag-and-drop actions at most one
\* processFiles run is active and at most one extraction call
\* (parseDocument / parsePacketSegment) is in flight.
C24_OneRunOneCall ==
  /\ Cardinality({r \in 1..Len(runs) : Active(runs[r])}) <= 1
  /\ Cardinality({r \in 1..Len(runs) : InFlight(runs[r])}) <= 1

\* the segments of a packet that are sent to extraction
ExtractedParts(f) ==
  IF IsPdf(f)
    THEN LET segments == buildSegments(triagePages(f.pages))
         IN {k \in 1..Len(segments) : segments[k].label # "EMAIL_COVER"}
    ELSE {1}

\* an await of the file throws out of the loop
FileFails(f) == f.read_throws \/ \E k \in ExtractedParts(f) : f.results[k] = <<>>

RECURSIVE FileRows(_, _)
FileRows(f, k) ==
  IF k > Len(f.results) THEN <<>>
  ELSE (IF k \in ExtractedParts(f) /\ f.results[k] # <<>>
          THEN MappedRows(f.results[k][1], exclusions, refPack) ELSE <<>>)
       \o FileRows(f, k + 1)

BatchFails(batch) == \E i \in 1..Len(batch) : FileFails(batch[i])

RECURSIVE BatchRows(_, _)
BatchRows(batch, i) ==
  IF i > Len(batch) THEN <<>> ELSE FileRows(batch[i], 1) \o BatchRows(batch, i + 1)

\* Tesseract.recognize throws for a file the run gets to
OcrThrows(batch) ==
  \E i \in 1..Len(batch) :
    /\ batch[i].ocr_throws
    /\ ~batch[i].read_throws
    /\ \A j \in 1..(i - 1) : ~FileFails(batch[j])

\* run r ends in this step
RunEnds(r) ==
  /\ runs'[r].pc = "done"
  /\ r > Len(runs) \/ runs[r].pc # "done"

RunEndsClean ==
  /\ isProcessing' = FALSE
  /\ progress' = 0
  /\ processingStatus' = ""

\* C30 as stated: a run in which no step throws prepends the rows of the
\* whole batch, in processing order, to the unchanged queue; a run in which
\* any step throws adds no row and sets lastError; either way it ends with
\* isProcessing = FALSE, progress = 0 and an empty status.
C30_AllOrNothing ==
  [][\A r \in 1..Len(runs') :
       RunEnds(r) =>
         /\ RunEndsClean
         /\ IF BatchFails(runs'[r].files) \/ OcrThrows(runs'[r].files)
              THEN rows' = rows /\ lastError' # <<>>
              ELSE rows' = BatchRows(runs'[r].files, 1) \o rows]_vars

\* C30 amended: the exception of the OCR hint is caught inside the loop and
\* does not count; a run in which no other step throws prepends the rows of
\* the whole batch, in processing order, to the unchanged queue; a run in
\* which another step throws adds no row and sets lastError; either way it
\* ends with isProcessing = FALSE, progress = 0 and an empty status.
C30_AllOrNothingButOcr ==
  [][\A r \in 1..Len(runs') :
       RunEnds(r) =>
         /\ RunEndsClean
         /\ IF BatchFails(runs'[r].files)
              THEN rows' = rows /\ lastError' # <<>>
              ELSE rows' = BatchRows(runs'[r].files, 1) \o rows]_vars

\* a run has failed after gathering rows, and another has succeeded on a
\* queue that held rows
C30_Witness ==
  /\ \E r \in 1..Len(runs) :
       /\ runs[r].pc = "done"
       /\ BatchFails(runs[r].files)
       /\ runs[r].allNewRows # <<>>
  /\ \E r \in 1..Len(runs) :
       /\ runs[r].pc = "done"
       /\ ~BatchFails(runs[r].files)
       /\ Len(runs[r].allNewRows) >= 2
       /\ Len(rows) > Len(runs[r].allNewRows)
  /\ ~isProcessing
  /\ lastError # <<>>

\* ------------------------------------------------------------------------
\* Frame of enrichAndValidate (SpecEnrich)
\* ------------------------------------------------------------------------
\* the fields enrichAndValidate writes
EnrichedFields ==
  {"confidence_score", "match_score", "automation_lane", "sage_import_ready",
   "routing_reason", "fields_requiring_review", "raw_edge_case_notes",
   "policy_rule_ids_applied", "abh_item_no_candidate"}

\* C25: enrichAndValidate returns one row per input row in the same order;
\* doc_id, doc_type, line_no, the quantity, the prices and the item text are
\* those of the input row, and only confidence, match score, lane, readiness,
\* routing reason, review fields, notes, rule ids and the ABH item candidate
\* may differ.
C25_EnrichFrame ==
  step = "enriched" =>
    /\ Len(rows) = Len(mapped)
    /\ \A i \in 1..Len(mapped) :
         /\ DOMAIN rows[i] = DOMAIN mapped[i]
         /\ \A f \in DOMAIN mapped[i] \ EnrichedFields : rows[i][f] = mapped[i][f]
         /\ rows[i].line_no = i

C25_Witness ==
  /\ step = "enriched"
  /\ Len(rows) = 2
  /\ rows[1].doc_type = "EMAIL_COVER" /\ rows[1].qty = <<5>>
  /\ rows[2].doc_type = "PURCHASE_ORDER" /\ rows[2].qty = <<>>
  /\ rows[2].automation_lane # mapped[2].automation_lane
  /\ rows[2].confidence_score # mapped[2].confidence_score
  /\ rows[2].abh_item_no_candidate # <<>>

\* ------------------------------------------------------------------------
\* Lane and confidence of enrichAndValidate (SpecEnrich)
\* ------------------------------------------------------------------------
\* lane of a row that is not an e-mail cover: AUTO exactly when manufacturer
\* and finish both ground, ASSIST otherwise, with at most two violations
LaneByGrounding(i) ==
  /\ rows[i].automation_lane = "AUTO" <=>
       (normalizeManufacturer(mapped[i].text) /\ normalizeFinish(mapped[i].text))
  /\ rows[i].automation_lane \in {"AUTO", "ASSIST"}
  /\ Len(Violations(mapped[i])) <= 2
  /\ rows[i].confidence_score = Hundredths(ConfidenceDouble(mapped[i]))

\* C27 as stated: a row that is not an e-mail cover gets AUTO exactly when
\* manufacturer and finish both ground, whatever the category, and ASSIST
\* otherwise, never BLOCK; its confidence_score is one of 0.2, 0.4, 0.6, 0.8
\* and 1.0.
C27_LaneAndConfidence ==
  step = "enriched" =>
    \A i \in 1..Len(rows) :
      rows[i].doc_type # "EMAIL_COVER" =>
        /\ LaneByGrounding(i)
        /\ ConfidenceDouble(mapped[i]) \in {"0.2", "0.4", "0.6", "0.8", "1"}

\* C27 amended: a row that is not an e-mail cover gets AUTO exactly when
\* manufacturer and finish both ground, whatever the category, and ASSIST
\* otherwise, never BLOCK; its confidence_score is one of 0.2, 0.4,
\* 0.6000000000000001, 0.8 and 1.0.
C27_LaneAndConfidenceAsDouble ==
  step = "enriched" =>
    \A i \in 1..Len(rows) :
      rows[i].doc_type # "EMAIL_COVER" =>
        /\ LaneByGrounding(i)
        /\ ConfidenceDouble(mapped[i]) \in {"0.2", "0.4", "0.6000000000000001", "0.8", "1"}

\* a row that grounds manufacturer and finish only is AUTO at 0.8, next to a
\* row that grounds the manufacturer only and is ASSIST at 0.6000000000000001
C27_Witness ==
  /\ step = "enriched"
  /\ Len(rows) = 2
  /\ mapped[1].text = {"MFR", "FINISH"} /\ rows[1].doc_type = "PURCHASE_ORDER"
  /\ rows[1].automation_lane = "AUTO" /\ rows[1].confidence_score = 80
  /\ mapped[2].text = {"MFR"} /\ rows[2].doc_type = "PICKING_SHEET"
  /\ rows[2].automation_lane = "ASSIST"
  /\ ConfidenceDouble(mapped[2]) = "0.6000000000000001"

\* ------------------------------------------------------------------------
\* Reason codes and AUTO_STAGE exports (SpecExport)
\* ------------------------------------------------------------------------
HighCode == "ALL_LINES_HIGH_CONFIDENCE"

LowCode == "LOW_CONFIDENCE_FIELDS_PRESENT"

\* C28: ALL_LINES_HIGH_CONFIDENCE and LOW_CONFIDENCE_FIELDS_PRESENT are never
\* both among the reason codes of a document; with review_min <= auto_stage_min
\* exactly one of them is present and PARSING_ERROR is not emitted;
\* PARSING_ERROR appears only with review_min > auto_stage_min and a row of
\* the document whose confidence lies in [auto_stage_min, review_min).
C28_ConfidenceCodesExclusive ==
  Exported =>
    \A k \in 1..Len(exports) :
      LET codes == exports[k].reason_codes
          th == exports[k].thresholds
      IN /\ ~(HighCode \in codes /\ LowCode \in codes)
         /\ th.review_min <= th.auto_stage_min =>
              /\ (HighCode \in codes) # (LowCode \in codes)
              /\ "PARSING_ERROR" \notin codes
         /\ "PARSING_ERROR" \in codes =>
              /\ th.review_min > th.auto_stage_min
              /\ \E i \in RowsOfDoc(exports[k].document_id) :
                   /\ ConfOrOne(rows[i]) >= th.auto_stage_min
                   /\ ConfOrOne(rows[i]) < th.review_min

\* PARSING_ERROR under inverted thresholds for a clean document whose row
\* lies between the two, next to a document with a row below auto_stage_min
C28_Witness ==
  /\ Exported
  /\ Len(exports) = 2
  /\ thresholds.review_min > thresholds.auto_stage_min
  /\ exports[1].reason_codes = {"PARSING_ERROR"}
  /\ LowCode \in exports[2].reason_codes
  /\ HighCode \notin exports[2].reason_codes

\* C29: an export with decision AUTO_STAGE has every row of its document in
\* lane AUTO and none below auto_stage_min or review_min (a missing confidence
\* counting as 1), and carries ALL_LINES_HIGH_CONFIDENCE but not
\* LOW_CONFIDENCE_FIELDS_PRESENT; auto_process_eligible is TRUE exactly when
\* the decision is AUTO_STAGE and the run mode is PRODUCTION.
C29_AutoStageIsClean ==
  Exported =>
    \A k \in 1..Len(exports) :
      /\ exports[k].decision = "AUTO_STAGE" =>
           /\ \A i \in RowsOfDoc(exports[k].document_id) :
                /\ rows[i].automation_lane = "AUTO"
                /\ ConfOrOne(rows[i]) >= exports[k].thresholds.auto_stage_min
                /\ ConfOrOne(rows[i]) >= exports[k].thresholds.review_min
           /\ HighCode \in exports[k].reason_codes
           /\ LowCode \notin exports[k].reason_codes
      /\ exports[k].auto_process_eligible <=>
           (exports[k].decision = "AUTO_STAGE" /\ exports[k].run_mode = "PRODUCTION")

\* an AUTO_STAGE export of two rows, one of them without a confidence, in
\* a run that is not PRODUCTION
C29_Witness ==
  /\ Exported
  /\ Len(exports) = 1
  /\ exports[1].decision = "AUTO_STAGE"
  /\ exports[1].n_line_items = 2
  /\ exports[1].run_mode = "SHADOW"
  /\ ~exports[1].auto_process_eligible
  /\ \E i \in 1..Len(rows) : rows[i].confidence_score = NoConf
  /\ \E i \in 1..Len(rows) : rows[i].confidence_score = 80

====
